---- MODULE Spec2Model ----
(***************************************************************************)
(* A model of the file caching service: the HTTP handlers GetFile and      *)
(* Health of internal/handlers/handlers.go running as concurrent           *)
(* goroutines over a shared Cache port (MockCache or RedisCache, or none)  *)
(* and a shared Storage port (MockStorage), with the detached cache        *)
(* write-back goroutine GetFile starts after a successful storage fetch.   *)
(* Go strings and byte slices are TLA+ strings; an error is the string     *)
(* err.Error() returns, and Nil is the nil error.  The calls the mocks     *)
(* record (GetCalls, SetCalls, PingCalls, HealthCheckCalls) are kept with  *)
(* the request that made them, in the field calls; where a mock is called  *)
(* on its own (SpecMocks) they are kept in port.calls.                     *)
(***************************************************************************)
EXTENDS Integers, Sequences, FiniteSets, Bags, TLC

\* Number of HTTP requests served in one behaviour.
MaxReqs == 2
\* Number of out-of-band events (a change of the stored objects, a fault of
\* a backend, a deadline, a client going away) in one behaviour.
MaxEnv == 1

Nil == "<nil>"
NoBytes == ""

\* r.PathValue("name"): the two file names the requests ask for, and the
\* empty name.
Names == {"a.txt", "b"}
PathValues == Names \cup {""}
Bytes == {"hello", "world"}

\* The errors of the mocks package and of package context.
ErrCacheUnavailable == "cache unavailable"
ErrCacheTimeout == "cache timeout"
ErrObjectNotFound == "NoSuchKey: The specified key does not exist"
ErrStorageTimeout == "storage timeout"
ErrStorageError == "storage error"
ErrBucketNotFound == "bucket not found"
DeadlineExceeded == "context deadline exceeded"
Canceled == "context canceled"

\* net/http status codes used by the handlers.
StatusOK == 200
StatusBadRequest == 400
StatusNotFound == 404
StatusInternalServerError == 500
StatusServiceUnavailable == 503
StatusGatewayTimeout == 504

VARIABLES
  h,        \* the FileHandler: h.cache is "nil", "mock" or "redis"
  cache,    \* the cache backend: its entries and its current faults
  storage,  \* the storage backend: its objects and its current faults
  req,      \* the bag of requests that arrived: for each the handler
            \* goroutine's locals, its response and its write-back goroutine
  env,      \* number of out-of-band events so far
  cfg,      \* the process environment and the Config that Load made of it
  port      \* a cache driven directly: the last call's result, the calls

vars == <<h, cache, storage, req, env, cfg, port>>

\* strings.Contains(s, substr)
Contains(s, substr) ==
  \E i \in 1..(Len(s) - Len(substr) + 1) :
    SubSeq(s, i, i + Len(substr) - 1) = substr

\* isNotFoundError looking for "NoSuchKey" alone.
isNotFoundErrorNoSuchKeyOnly(err) == Contains(err, "NoSuchKey")

isNotFoundError(err) ==
  Contains(err, "NoSuchKey") \/ Contains(err, "not found")

-----------------------------------------------------------------------------
(* The Cache port.                                                         *)

\* NewMockCache(): no entry, no injected error.  For RedisCache data is the
\* server's keyspace and the three errors are what the go-redis client
\* currently fails Get, Set and Ping with.
\* CloseCalls counts the calls of MockCache.Close; closed is the state of
\* RedisCache's client.
NewMockCache ==
  [data |-> <<>>, GetError |-> Nil, SetError |-> Nil, PingError |-> Nil,
   CloseError |-> Nil, CloseCalls |-> 0, closed |-> FALSE]

\* m[key] = data on a Go map
MapSet(m, key, data) ==
  [k \in DOMAIN m \cup {key} |-> IF k = key THEN data ELSE m[k]]

\* MockCacheGet removing the entry it returns.
MockCacheGetEvicts(c, key) ==
  IF c.GetError # Nil
    THEN [cache |-> c, data |-> NoBytes, found |-> FALSE, err |-> c.GetError]
    ELSE IF key \in DOMAIN c.data
      THEN [cache |-> [c EXCEPT !.data = [k \in DOMAIN @ \ {key} |-> @[k]]],
            data |-> c.data[key], found |-> TRUE, err |-> Nil]
      ELSE [cache |-> c, data |-> NoBytes, found |-> FALSE, err |-> Nil]

\* Each operation returns the backend after the call and the call's results.
MockCacheGet(c, key) ==
  IF c.GetError # Nil
    THEN [cache |-> c, data |-> NoBytes, found |-> FALSE, err |-> c.GetError]
    ELSE IF key \in DOMAIN c.data
      THEN [cache |-> c, data |-> c.data[key], found |-> TRUE, err |-> Nil]
      ELSE [cache |-> c, data |-> NoBytes, found |-> FALSE, err |-> Nil]

\* MockCacheSet keeping the entry a key already has.
MockCacheSetKeepsFirst(c, key, data) ==
  IF c.SetError # Nil
    THEN [cache |-> c, err |-> c.SetError]
  ELSE IF key \in DOMAIN c.data
    THEN [cache |-> c, err |-> Nil]
    ELSE [cache |-> [c EXCEPT !.data = MapSet(@, key, data)], err |-> Nil]

\* MockCacheSet replacing the whole map by the one entry.
MockCacheSetClearsOthers(c, key, data) ==
  IF c.SetError # Nil
    THEN [cache |-> c, err |-> c.SetError]
    ELSE [cache |-> [c EXCEPT !.data = MapSet(<<>>, key, data)], err |-> Nil]

MockCacheSet(c, key, data) ==
  IF c.SetError # Nil
    THEN [cache |-> c, err |-> c.SetError]
    ELSE [cache |-> [c EXCEPT !.data = MapSet(@, key, data)], err |-> Nil]

MockCachePing(c) == [cache |-> c, err |-> c.PingError]

MockCacheSetData(c, key, data) == [c EXCEPT !.data = MapSet(@, key, data)]

MockCacheClearData(c) == [c EXCEPT !.data = <<>>]

\* Reset(): the entries, the counters and the injected errors are cleared.
MockCacheReset(c) == [NewMockCache EXCEPT !.closed = c.closed]

\* The calls MockCache records: GetCalls and SetCalls after one more call.
NoCacheCalls == [GetCalls |-> <<>>, SetCalls |-> <<>>]

MockCacheGetCalls(calls, key) == Append(calls, key)

MockCacheSetCalls(calls, key, data) ==
  Append(calls, [Key |-> key, Data |-> data])

\* The go-redis client behind RedisCache: a command fails with the client's
\* current fault, or with the context's error when the context is done and
\* the client notices it before the reply (obeys); otherwise it runs.
ClientErr(fault, ctxErr, obeys) ==
  IF fault # Nil THEN fault
  ELSE IF ctxErr # Nil /\ obeys THEN ctxErr
  ELSE Nil

\* RedisCacheGet without the test for redis.Nil: the reply to a Get of an
\* absent key is wrapped like any error.
RedisCacheGetNilIsError(c, ctxErr, obeys, key) ==
  LET err == ClientErr(c.GetError, ctxErr, obeys) IN
  IF err = Nil /\ key \in DOMAIN c.data
    THEN [cache |-> c, data |-> c.data[key], found |-> TRUE, err |-> Nil]
    ELSE [cache |-> c, data |-> NoBytes, found |-> FALSE,
          err |-> "redis get error: " \o (IF err # Nil THEN err ELSE "redis: nil")]

RedisCacheGet(c, ctxErr, obeys, key) ==
  LET err == ClientErr(c.GetError, ctxErr, obeys) IN
  IF err = Nil /\ key \notin DOMAIN c.data
    THEN [cache |-> c, data |-> NoBytes, found |-> FALSE, err |-> Nil]
    ELSE IF err # Nil
      THEN [cache |-> c, data |-> NoBytes, found |-> FALSE,
            err |-> "redis get error: " \o err]
      ELSE [cache |-> c, data |-> c.data[key], found |-> TRUE, err |-> Nil]

RedisCacheSet(c, ctxErr, obeys, key, data) ==
  LET err == ClientErr(c.SetError, ctxErr, obeys) IN
  IF err # Nil
    THEN [cache |-> c, err |-> "redis set error: " \o err]
    ELSE [cache |-> [c EXCEPT !.data = MapSet(@, key, data)], err |-> Nil]

RedisCachePing(c, ctxErr, obeys) ==
  [cache |-> c, err |-> ClientErr(c.PingError, ctxErr, obeys)]

\* MockCache.Close(): the call is counted and the injected error returned.
MockCacheClose(c) ==
  [cache |-> [c EXCEPT !.CloseCalls = @ + 1], err |-> c.CloseError]

\* What the go-redis client answers when it is closed already.
ErrClosed == "redis: client is closed"

\* RedisCache.Close() returns c.client.Close(): the client closes its
\* connection pool, and a pool that is closed already answers ErrClosed.
RedisCacheClose(c) ==
  IF c.closed
    THEN [cache |-> c, err |-> ErrClosed]
    ELSE [cache |-> [c EXCEPT !.closed = TRUE], err |-> c.CloseError]

\* Dynamic dispatch on the cache.Cache interface value held by the handler.
CacheGet(impl, c, ctxErr, obeys, key) ==
  IF impl = "mock" THEN MockCacheGet(c, key)
  ELSE RedisCacheGet(c, ctxErr, obeys, key)

CacheSet(impl, c, ctxErr, obeys, key, data) ==
  IF impl = "mock" THEN MockCacheSet(c, key, data)
  ELSE RedisCacheSet(c, ctxErr, obeys, key, data)

CachePing(impl, c, ctxErr, obeys) ==
  IF impl = "mock" THEN MockCachePing(c)
  ELSE RedisCachePing(c, ctxErr, obeys)

CacheClose(impl, c) ==
  IF impl = "mock" THEN MockCacheClose(c)
  ELSE RedisCacheClose(c)

-----------------------------------------------------------------------------
(* The Storage port.                                                       *)

NewMockStorage ==
  [objects |-> <<>>, GetError |-> Nil, PutError |-> Nil, DeleteError |-> Nil,
   ExistsError |-> Nil, HealthCheckError |-> Nil]

MockStorageGetObject(s, key) ==
  IF s.GetError # Nil
    THEN [data |-> NoBytes, err |-> s.GetError]
    ELSE IF key \notin DOMAIN s.objects
      THEN [data |-> NoBytes, err |-> ErrObjectNotFound]
      ELSE [data |-> s.objects[key], err |-> Nil]

MockStorageHealthCheck(s) == [err |-> s.HealthCheckError]

\* delete(m, key) on a Go map
MapDelete(m, key) == [k \in DOMAIN m \ {key} |-> m[k]]

\* An io.Reader: the bytes io.ReadAll gets from it and the error it ends with.
ErrUnexpectedEOF == "unexpected EOF"
Readers ==
  {[content |-> b, err |-> Nil] : b \in Bytes}
    \cup {[content |-> NoBytes, err |-> ErrUnexpectedEOF]}

ContentType == "text/plain"

\* MockStoragePutObject storing the object although PutError is set.
MockStoragePutObjectStoresOnError(s, key, reader) ==
  IF reader.err # Nil
    THEN [storage |-> s, err |-> reader.err]
    ELSE [storage |-> [s EXCEPT !.objects = MapSet(@, key, reader.content)],
          err |-> s.PutError]

MockStoragePutObject(s, key, reader) ==
  IF reader.err # Nil
    THEN [storage |-> s, err |-> reader.err]
    ELSE IF s.PutError # Nil
      THEN [storage |-> s, err |-> s.PutError]
      ELSE [storage |-> [s EXCEPT !.objects = MapSet(@, key, reader.content)],
            err |-> Nil]

\* MockStorageDeleteObject leaving the object in place.
MockStorageDeleteObjectKeeps(s, key) ==
  [storage |-> s, err |-> s.DeleteError]

MockStorageDeleteObject(s, key) ==
  IF s.DeleteError # Nil
    THEN [storage |-> s, err |-> s.DeleteError]
    ELSE [storage |-> [s EXCEPT !.objects = MapDelete(@, key)], err |-> Nil]

MockStorageObjectExists(s, key) ==
  IF s.ExistsError # Nil
    THEN [found |-> FALSE, err |-> s.ExistsError]
    ELSE [found |-> key \in DOMAIN s.objects, err |-> Nil]

MockStorageSetObject(s, key, data) ==
  [s EXCEPT !.objects = MapSet(@, key, data)]

MockStorageClearObjects(s) == [s EXCEPT !.objects = <<>>]

MockStorageReset(s) == NewMockStorage

\* The calls MockStorage records: GetCalls, PutCalls, DeleteCalls and
\* ExistsCalls after one more call.  PutObject records the call once the
\* reader has been read to its end.
NoStorageCalls ==
  [GetCalls |-> <<>>, PutCalls |-> <<>>, DeleteCalls |-> <<>>,
   ExistsCalls |-> <<>>]

MockStorageGetCalls(calls, key) == Append(calls, key)

MockStoragePutCalls(calls, key, reader) ==
  IF reader.err # Nil THEN calls
  ELSE Append(calls, [Key |-> key, ContentType |-> ContentType,
                      Data |-> reader.content])

MockStorageDeleteCalls(calls, key) == Append(calls, key)

MockStorageExistsCalls(calls, key) == Append(calls, key)

-----------------------------------------------------------------------------
(* Responses.                                                              *)

NoResponse == [status |-> 0, success |-> FALSE, message |-> "", body |-> NoBytes]

\* writeJSON(w, status, Response{Success, Message}): the header is written
\* with the status and the envelope is the body.
writeJSON(status, success, message) ==
  [status |-> status, success |-> success, message |-> message, body |-> NoBytes]

\* writeFileResponse(w, filename, data): 200 and the raw bytes, no envelope.
writeFileResponse(filename, data) ==
  [status |-> StatusOK, success |-> TRUE, message |-> "", body |-> data]

NoHealth == [status |-> "", redis |-> "", r2 |-> ""]

\* A request as it arrives: nothing called, nothing answered.
NewReq ==
  [kind |-> "none", pc |-> "new", name |-> "", ctxErr |-> Nil,
   cdata |-> NoBytes, found |-> FALSE, cerr |-> Nil,
   data |-> NoBytes, err |-> Nil,
   resp |-> NoResponse, health |-> NoHealth, calls |-> <<>>,
   wb |-> "none", wbErr |-> Nil, bgCtxErr |-> Nil]

\* defer cancel(): when the handler returns, its context is cancelled unless
\* it is done already.
Cancelled(ctxErr) == IF ctxErr = Nil THEN Canceled ELSE ctxErr

-----------------------------------------------------------------------------
(* internal/config: Load and parseRedisMode.  Strings are over ASCII.      *)

RedisModeDisabled == "disabled"
RedisModeEnabled == "enabled"

UpperCase == "ABCDEFGHIJKLMNOPQRSTUVWXYZ"
LowerCase == "abcdefghijklmnopqrstuvwxyz"

\* unicode.ToLower on one character
LowerChar(c) ==
  IF \E i \in 1..Len(UpperCase) : SubSeq(UpperCase, i, i) = c
    THEN LET i == CHOOSE i \in 1..Len(UpperCase) : SubSeq(UpperCase, i, i) = c
         IN SubSeq(LowerCase, i, i)
    ELSE c

RECURSIVE ToLower(_)
\* strings.ToLower(s)
ToLower(s) ==
  IF s = "" THEN ""
  ELSE LowerChar(SubSeq(s, 1, 1)) \o ToLower(SubSeq(s, 2, Len(s)))

\* parseRedisMode comparing the string as it is.
parseRedisModeCaseSensitive(mode) ==
  IF mode \in {"disabled", "none", "off", "false"}
    THEN RedisModeDisabled
    ELSE RedisModeEnabled

parseRedisMode(mode) ==
  IF ToLower(mode) \in {"disabled", "none", "off", "false"}
    THEN RedisModeDisabled
    ELSE RedisModeEnabled

\* os.Getenv(key): the empty string for a variable that is not set.
Getenv(environ, key) == IF key \in DOMAIN environ THEN environ[key] ELSE ""

getEnv(environ, key, defaultValue) ==
  LET value == Getenv(environ, key) IN
  IF value # "" THEN value ELSE defaultValue

\* Load(): of the Config, the field Redis.Mode.
Load(environ) ==
  [Redis |-> [Mode |-> parseRedisMode(getEnv(environ, "REDIS_MODE", "enabled"))]]

\* No variable set, nothing loaded.
NoCfg == [environ |-> <<>>, Redis |-> [Mode |-> ""], parsed |-> ""]

\* No call made on the port.
NoOut == [op |-> "", key |-> "", ctx |-> Nil, data |-> NoBytes,
          found |-> FALSE, err |-> Nil]
NoPort == [out |-> NoOut, n |-> 0]

\* The handler is built over an empty cache (or none) and over a storage
\* that holds one file, a.txt; b is absent.
Init ==
  /\ h \in {[cache |-> i] : i \in {"nil", "mock", "redis"}}
  /\ cache = NewMockCache
  /\ storage = [NewMockStorage EXCEPT !.objects = MapSet(@, "a.txt", "hello")]
  /\ req = EmptyBag
  /\ env = 0
  /\ cfg = NoCfg
  /\ port = NoPort

-----------------------------------------------------------------------------
(* FileHandler.GetFile.  The handler goroutine of a request takes one step *)
(* per port call; between two steps any other goroutine may run.           *)

Requests == BagToSet(req)

\* A request arrives.
Arrive(rq) ==
  /\ BagCardinality(req) < MaxReqs
  /\ req' = req (+) SetToBag({rq})

\* The goroutines of request rq take a step that leaves it as rq2.
Step(rq, rq2) ==
  /\ rq \in Requests
  /\ req' = (req (-) SetToBag({rq})) (+) SetToBag({rq2})

\* GetFileBegin without the check of the name.
GetFileBeginNoCheck(hd, rq, name) ==
  [rq EXCEPT !.kind = "GetFile", !.name = name,
             !.pc = IF hd.cache # "nil" THEN "cache" ELSE "storage"]

\* The empty-name check and the creation of the request's context.
GetFileBegin(hd, rq, name) ==
  IF name = ""
    THEN [rq EXCEPT !.kind = "GetFile", !.name = name, !.pc = "done",
            !.resp = writeJSON(StatusBadRequest, FALSE, "filename is required")]
    ELSE [rq EXCEPT !.kind = "GetFile", !.name = name,
            !.pc = IF hd.cache # "nil" THEN "cache" ELSE "storage"]

\* AfterCacheGet with the early return of the hit path missing: a hit goes on
\* to storage like a miss.
AfterCacheGetFallsThrough(rq, g) ==
  [rq EXCEPT !.cdata = g.data, !.found = g.found, !.cerr = g.err,
             !.calls = Append(@, "cache.Get"), !.pc = "storage"]

\* AfterCacheGet with the return after writeFileResponse missing: the hit is
\* written and the handler goes on to storage.
AfterCacheGetNoReturn(rq, g) ==
  LET r1 == [rq EXCEPT !.cdata = g.data, !.found = g.found, !.cerr = g.err,
                       !.calls = Append(@, "cache.Get"), !.pc = "storage"] IN
  IF g.found
    THEN [r1 EXCEPT !.resp = writeFileResponse(rq.name, g.data)]
    ELSE r1

\* AfterCacheGet answering a hit with writeJSON instead of
\* writeFileResponse.
AfterCacheGetHitEnvelope(rq, g) ==
  LET r1 == [rq EXCEPT !.cdata = g.data, !.found = g.found, !.cerr = g.err,
                       !.calls = Append(@, "cache.Get")] IN
  IF g.found
    THEN [r1 EXCEPT !.pc = "done", !.ctxErr = Cancelled(@),
            !.resp = writeJSON(StatusOK, TRUE, "")]
    ELSE [r1 EXCEPT !.pc = "storage"]

\* AfterCacheGet taking found into account only when Get returned no error.
AfterCacheGetErrorIsMiss(rq, g) ==
  LET r1 == [rq EXCEPT !.cdata = g.data, !.found = g.found, !.cerr = g.err,
                       !.calls = Append(@, "cache.Get")] IN
  IF g.found /\ g.err = Nil
    THEN [r1 EXCEPT !.pc = "done", !.ctxErr = Cancelled(@),
            !.resp = writeFileResponse(rq.name, g.data)]
    ELSE [r1 EXCEPT !.pc = "storage"]

\* AfterCacheGet with a cache error answered as a failure instead of being
\* logged.
AfterCacheGetFailsOnError(rq, g) ==
  LET r1 == [rq EXCEPT !.cdata = g.data, !.found = g.found, !.cerr = g.err,
                       !.calls = Append(@, "cache.Get")] IN
  IF g.err # Nil
    THEN [r1 EXCEPT !.pc = "done", !.ctxErr = Cancelled(@),
            !.resp = writeJSON(StatusInternalServerError, FALSE, g.err)]
  ELSE IF g.found
    THEN [r1 EXCEPT !.pc = "done", !.ctxErr = Cancelled(@),
            !.resp = writeFileResponse(rq.name, g.data)]
    ELSE [r1 EXCEPT !.pc = "storage"]

\* The handler after h.cache.Get returned g: a hit is answered at once, a
\* miss (with or without an error) goes on to storage.
AfterCacheGet(rq, g) ==
  LET r1 == [rq EXCEPT !.cdata = g.data, !.found = g.found, !.cerr = g.err,
                       !.calls = Append(@, "cache.Get")] IN
  IF g.found
    THEN [r1 EXCEPT !.pc = "done", !.ctxErr = Cancelled(@),
            !.resp = writeFileResponse(rq.name, g.data)]
    ELSE [r1 EXCEPT !.pc = "storage"]

\* StorageErrorResponse with the not-found test before the deadline test.
StorageErrorResponseNotFoundFirst(ctxErr, err) ==
  IF isNotFoundError(err)
    THEN writeJSON(StatusNotFound, FALSE, "File not found")
  ELSE IF ctxErr = DeadlineExceeded
    THEN writeJSON(StatusGatewayTimeout, FALSE, "Request timeout")
  ELSE writeJSON(StatusInternalServerError, FALSE, "Failed to retrieve file")

\* StorageErrorResponse without the test of the context's error.
StorageErrorResponseNoDeadline(ctxErr, err) ==
  IF isNotFoundError(err)
    THEN writeJSON(StatusNotFound, FALSE, "File not found")
    ELSE writeJSON(StatusInternalServerError, FALSE, "Failed to retrieve file")

\* The answer to a failed storage fetch.
StorageErrorResponse(ctxErr, err) ==
  IF ctxErr = DeadlineExceeded
    THEN writeJSON(StatusGatewayTimeout, FALSE, "Request timeout")
  ELSE IF isNotFoundError(err)
    THEN writeJSON(StatusNotFound, FALSE, "File not found")
  ELSE writeJSON(StatusInternalServerError, FALSE, "Failed to retrieve file")

\* GoWriteBack without the test of h.cache.
GoWriteBackAlways(hd, rq) == [rq EXCEPT !.wb = "scheduled"]

\* The go statement: with a cache configured the write-back goroutine is
\* created, holding filename and data.
GoWriteBack(hd, rq) ==
  IF hd.cache # "nil" THEN [rq EXCEPT !.wb = "scheduled"] ELSE rq

\* AfterGetObject with the go statement ahead of the error check: the
\* write-back is started whatever GetObject returned.
AfterGetObjectWritesBackFirst(hd, rq, g) ==
  LET r1 == GoWriteBack(hd, [rq EXCEPT !.data = g.data, !.err = g.err,
                               !.calls = Append(@, "storage.GetObject")]) IN
  IF g.err # Nil
    THEN [r1 EXCEPT !.pc = "done", !.ctxErr = Cancelled(@),
            !.resp = StorageErrorResponse(rq.ctxErr, g.err)]
    ELSE [r1 EXCEPT !.pc = "respond"]

\* AfterGetObject calling GetObject once more after a failure.
AfterGetObjectRetries(hd, rq, g) ==
  LET r1 == [rq EXCEPT !.data = g.data, !.err = g.err,
                       !.calls = Append(@, "storage.GetObject")] IN
  IF g.err # Nil /\ rq.err = Nil
    THEN r1
  ELSE IF g.err # Nil
    THEN [r1 EXCEPT !.pc = "done", !.ctxErr = Cancelled(@),
            !.resp = StorageErrorResponse(rq.ctxErr, g.err)]
    ELSE [GoWriteBack(hd, r1) EXCEPT !.pc = "respond"]

\* The handler after h.storage.GetObject returned g.
AfterGetObject(hd, rq, g) ==
  LET r1 == [rq EXCEPT !.data = g.data, !.err = g.err,
                       !.calls = Append(@, "storage.GetObject")] IN
  IF g.err # Nil
    THEN [r1 EXCEPT !.pc = "done", !.ctxErr = Cancelled(@),
            !.resp = StorageErrorResponse(rq.ctxErr, g.err)]
    ELSE [GoWriteBack(hd, r1) EXCEPT !.pc = "respond"]

\* The handler calling Set itself, or waiting for the goroutine, before it
\* answers.
WaitsForWriteBackInline(rq) == rq.wb \notin {"none", "done"}

\* The handler does not join the goroutine it started: no channel, no
\* WaitGroup.
WaitsForWriteBack(rq) == FALSE

\* SendFile sending the data variable of the cache block instead of the one
\* the storage fetch assigned.
SendFileCacheData(rq) ==
  [rq EXCEPT !.pc = "done", !.ctxErr = Cancelled(@),
             !.resp = writeFileResponse(rq.name, rq.cdata)]

\* The last statement of GetFile: the fetched bytes are sent.
SendFile(rq) ==
  [rq EXCEPT !.pc = "done", !.ctxErr = Cancelled(@),
             !.resp = writeFileResponse(rq.name, rq.data)]

\* The write-back's context derived from the request's context instead of
\* context.Background(): done as soon as the request's is.
WriteBackCtxOfRequest(rq) ==
  IF rq.ctxErr # Nil THEN rq.ctxErr ELSE rq.bgCtxErr

\* The context the write-back's Set runs under: derived from
\* context.Background(), not from the request's context.
WriteBackCtx(rq) == rq.bgCtxErr

\* The closure passing the data variable of the cache block.
WriteBackArgsCacheData(rq) == [key |-> rq.name, data |-> rq.cdata]

\* WriteBackArgs with one key for every file instead of the filename.
WriteBackArgsSharedKey(rq) == [key |-> "a.txt", data |-> rq.data]

\* What the goroutine's closure passes to Set: the handler's filename and the
\* bytes storage returned.
WriteBackArgs(rq) == [key |-> rq.name, data |-> rq.data]

\* AfterCacheSet calling Set once more after a failure.
AfterCacheSetRetries(rq, g) ==
  IF g.err # Nil /\ rq.wbErr = Nil
    THEN [rq EXCEPT !.wbErr = g.err, !.calls = Append(@, "cache.Set")]
    ELSE [rq EXCEPT !.wb = "done", !.wbErr = g.err,
                    !.calls = Append(@, "cache.Set")]

\* AfterCacheSet calling Set again and again for as long as it fails.
AfterCacheSetRetriesForever(rq, g) ==
  IF g.err # Nil
    THEN [rq EXCEPT !.wbErr = g.err]
    ELSE [rq EXCEPT !.wb = "done", !.wbErr = g.err,
                    !.calls = Append(@, "cache.Set")]

\* The write-back goroutine after h.cache.Set returned g: the error is
\* logged and the goroutine ends.
AfterCacheSet(rq, g) ==
  [rq EXCEPT !.wb = "done", !.wbErr = g.err, !.calls = Append(@, "cache.Set")]

GetFileStart(name) ==
  /\ Arrive(GetFileBegin(h, NewReq, name))
  /\ UNCHANGED <<h, cache, storage, env>>

CacheLookup(rq, obeys) ==
  /\ rq.pc = "cache"
  /\ LET g == CacheGet(h.cache, cache, rq.ctxErr, obeys, rq.name) IN
       /\ cache' = g.cache
       /\ Step(rq, AfterCacheGet(rq, g))
  /\ UNCHANGED <<h, storage, env>>

\* WaitsForFetch with a table of the fetches in flight: a request waits while
\* another request's fetch of the same name is on its way into the cache.
WaitsForFetchOfSameKey(rq) ==
  \E o \in Requests : o.name = rq.name /\ o.wb \in {"scheduled", "set"}

\* Between the miss and storage.GetObject the handler takes no lock and
\* looks at no other request: there is no per-key table of fetches.
WaitsForFetch(rq) == FALSE

StorageFetch(rq) ==
  /\ rq.pc = "storage"
  /\ ~WaitsForFetch(rq)
  /\ Step(rq, AfterGetObject(h, rq, MockStorageGetObject(storage, rq.name)))
  /\ UNCHANGED <<h, cache, storage, env>>

Respond(rq) ==
  /\ rq.pc = "respond"
  /\ ~WaitsForWriteBack(rq)
  /\ Step(rq, SendFile(rq))
  /\ UNCHANGED <<h, cache, storage, env>>

\* The write-back goroutine starts: bgCtx is created and Set is called.
WriteBackBegin(rq) ==
  /\ rq.wb = "scheduled"
  /\ Step(rq, [rq EXCEPT !.wb = "set"])
  /\ UNCHANGED <<h, cache, storage, env>>

\* Set returns.
WriteBackSet(rq, obeys) ==
  /\ rq.wb = "set"
  /\ LET a == WriteBackArgs(rq)
         g == CacheSet(h.cache, cache, WriteBackCtx(rq), obeys, a.key, a.data)
     IN
       /\ cache' = g.cache
       /\ Step(rq, AfterCacheSet(rq, g))
  /\ UNCHANGED <<h, storage, env>>

-----------------------------------------------------------------------------
(* FileHandler.Health.                                                     *)

HealthBegin(hd, rq) ==
  [rq EXCEPT !.kind = "Health",
     !.health = [status |-> "healthy",
                 redis |-> IF hd.cache # "nil" THEN "" ELSE "disabled",
                 r2 |-> ""],
     !.pc = IF hd.cache # "nil" THEN "ping" ELSE "check"]

\* HealthAfterPing with the error of Ping dropped.
HealthAfterPingIgnoresError(rq, g) ==
  [rq EXCEPT !.cerr = g.err, !.calls = Append(@, "cache.Ping"), !.pc = "check",
     !.health.redis = "healthy"]

HealthAfterPing(rq, g) ==
  [rq EXCEPT !.cerr = g.err, !.calls = Append(@, "cache.Ping"), !.pc = "check",
     !.health.redis = IF g.err # Nil THEN "unhealthy: " \o g.err ELSE "healthy"]

\* HealthAfterCheck with a failed Ping counted like a failed HealthCheck.
HealthAfterCheckCacheCounts(rq, g) ==
  LET r1 == [rq EXCEPT !.err = g.err, !.pc = "done", !.ctxErr = Cancelled(@),
                       !.calls = Append(@, "storage.HealthCheck")] IN
  IF g.err # Nil \/ rq.cerr # Nil
    THEN [r1 EXCEPT !.health.status = "unhealthy",
            !.health.r2 = IF g.err # Nil THEN "unhealthy: " \o g.err
                          ELSE "healthy",
            !.resp = writeJSON(StatusServiceUnavailable, FALSE,
                               "Service is unhealthy")]
    ELSE [r1 EXCEPT !.health.r2 = "healthy",
            !.resp = writeJSON(StatusOK, TRUE, "Service is healthy")]

HealthAfterCheck(rq, g) ==
  LET r1 == [rq EXCEPT !.err = g.err, !.pc = "done", !.ctxErr = Cancelled(@),
                       !.calls = Append(@, "storage.HealthCheck")] IN
  IF g.err # Nil
    THEN [r1 EXCEPT !.health.status = "unhealthy",
            !.health.r2 = "unhealthy: " \o g.err,
            !.resp = writeJSON(StatusServiceUnavailable, FALSE,
                               "Service is unhealthy")]
    ELSE [r1 EXCEPT !.health.r2 = "healthy",
            !.resp = writeJSON(StatusOK, TRUE, "Service is healthy")]

HealthStart ==
  /\ Arrive(HealthBegin(h, NewReq))
  /\ UNCHANGED <<h, cache, storage, env>>

HealthPing(rq, obeys) ==
  /\ rq.pc = "ping"
  /\ LET g == CachePing(h.cache, cache, rq.ctxErr, obeys) IN
       /\ cache' = g.cache
       /\ Step(rq, HealthAfterPing(rq, g))
  /\ UNCHANGED <<h, storage, env>>

HealthCheck(rq) ==
  /\ rq.pc = "check"
  /\ Step(rq, HealthAfterCheck(rq, MockStorageHealthCheck(storage)))
  /\ UNCHANGED <<h, cache, storage, env>>

-----------------------------------------------------------------------------
(* The environment: out-of-band changes of the stored objects, faults of   *)
(* the backends (the mocks' injected errors), the contexts' deadlines and  *)
(* the client going away.                                                  *)

CacheFaults == {Nil, ErrCacheUnavailable}
StorageFaults == {Nil, ErrStorageError, ErrBucketNotFound}

EnvStep == env < MaxEnv /\ env' = env + 1

\* MockStorage.SetObject(key, data)
SetObject(key, data) ==
  /\ EnvStep
  /\ storage' = [storage EXCEPT !.objects = MapSet(@, key, data)]
  /\ storage' # storage
  /\ UNCHANGED <<h, cache, req>>

\* MockStorage.ClearObjects()
ClearObjects ==
  /\ EnvStep
  /\ storage.objects # <<>>
  /\ storage' = [storage EXCEPT !.objects = <<>>]
  /\ UNCHANGED <<h, cache, req>>

\* cache.GetError = e, cache.SetError = e, cache.PingError = e
InjectCacheFault(field, e) ==
  /\ EnvStep
  /\ h.cache # "nil"
  /\ cache[field] # e
  /\ cache' = [cache EXCEPT ![field] = e]
  /\ UNCHANGED <<h, storage, req>>

\* storage.GetError = e, storage.HealthCheckError = e
InjectStorageFault(field, e) ==
  /\ EnvStep
  /\ storage[field] # e
  /\ storage' = [storage EXCEPT ![field] = e]
  /\ UNCHANGED <<h, cache, req>>

\* Every backend is unreachable at once: each operation of the cache and of
\* the storage fails from now on.
Outage ==
  /\ EnvStep
  /\ cache' = IF h.cache = "nil" THEN cache
              ELSE [cache EXCEPT !.GetError = ErrCacheUnavailable,
                                 !.SetError = ErrCacheUnavailable,
                                 !.PingError = ErrCacheUnavailable]
  /\ storage' = [storage EXCEPT !.GetError = ErrStorageError,
                                !.HealthCheckError = ErrStorageError]
  /\ UNCHANGED <<h, req>>

\* The handler has not returned; a context nobody reads any more (MockCache
\* and MockStorage ignore theirs) is left out.
InFlight(rq) ==
  /\ rq.pc \notin {"done"}
  /\ rq.ctxErr = Nil
  /\ rq.kind = "GetFile" \/ h.cache = "redis"

\* The request's deadline (30s for GetFile, 5s for Health) elapses.
Deadline(rq) ==
  /\ EnvStep
  /\ InFlight(rq)
  /\ Step(rq, [rq EXCEPT !.ctxErr = DeadlineExceeded])
  /\ UNCHANGED <<h, cache, storage>>

\* The client disconnects: r.Context() is cancelled.
Disconnect(rq) ==
  /\ EnvStep
  /\ InFlight(rq)
  /\ Step(rq, [rq EXCEPT !.ctxErr = Canceled])
  /\ UNCHANGED <<h, cache, storage>>

\* The write-back's own 30s deadline elapses while Set is running.
BgDeadline(rq) ==
  /\ EnvStep
  /\ h.cache = "redis" /\ rq.wb = "set" /\ rq.bgCtxErr = Nil
  /\ Step(rq, [rq EXCEPT !.bgCtxErr = DeadlineExceeded])
  /\ UNCHANGED <<h, cache, storage>>

-----------------------------------------------------------------------------

\* A step of a handler, of a write-back or of the environment.
Serve ==
  \/ \E name \in PathValues : GetFileStart(name)
  \/ \E rq \in Requests, obeys \in BOOLEAN : CacheLookup(rq, obeys)
  \/ \E rq \in Requests : StorageFetch(rq)
  \/ \E rq \in Requests : Respond(rq)
  \/ \E rq \in Requests : WriteBackBegin(rq)
  \/ \E rq \in Requests, obeys \in BOOLEAN : WriteBackSet(rq, obeys)
  \/ HealthStart
  \/ \E rq \in Requests, obeys \in BOOLEAN : HealthPing(rq, obeys)
  \/ \E rq \in Requests : HealthCheck(rq)
  \/ \E key \in Names, data \in Bytes : SetObject(key, data)
  \/ ClearObjects
  \/ \E field \in {"GetError", "SetError", "PingError"}, e \in CacheFaults :
       InjectCacheFault(field, e)
  \/ \E e \in StorageFaults : InjectStorageFault("GetError", e)
  \/ \E e \in {Nil, ErrBucketNotFound} : InjectStorageFault("HealthCheckError", e)
  \/ Outage
  \/ \E rq \in Requests : Deadline(rq)
  \/ \E rq \in Requests : Disconnect(rq)
  \/ \E rq \in Requests : BgDeadline(rq)

Next == Serve /\ UNCHANGED <<cfg, port>>

Spec == Init /\ [][Next]_vars

\* A step of a handler goroutine or of a write-back goroutine: a port call
\* that returns, or the response being written.
Progress ==
  /\ \/ \E rq \in Requests, obeys \in BOOLEAN : CacheLookup(rq, obeys)
     \/ \E rq \in Requests : StorageFetch(rq)
     \/ \E rq \in Requests : Respond(rq)
     \/ \E rq \in Requests : WriteBackBegin(rq)
     \/ \E rq \in Requests, obeys \in BOOLEAN : WriteBackSet(rq, obeys)
     \/ \E rq \in Requests, obeys \in BOOLEAN : HealthPing(rq, obeys)
     \/ \E rq \in Requests : HealthCheck(rq)
  /\ UNCHANGED <<cfg, port>>

\* The goroutines are scheduled and every port call returns, by its
\* context's deadline at the latest: a goroutine that can take a step
\* takes one.  Arrivals and the environment are under no obligation.
FairSpec == Spec /\ WF_vars(Progress)

-----------------------------------------------------------------------------
(* The configuration read at start-up: REDIS_MODE is unset or holds one of *)
(* ModeInputs; parseRedisMode is applied to the value as it is, and Load   *)
(* to the environment.                                                     *)

\* The upper-case form of one character.
UpperChar(c) ==
  IF \E i \in 1..Len(LowerCase) : SubSeq(LowerCase, i, i) = c
    THEN LET i == CHOOSE i \in 1..Len(LowerCase) : SubSeq(LowerCase, i, i) = c
         IN SubSeq(UpperCase, i, i)
    ELSE c

RECURSIVE CaseVariants(_)
\* The spellings of a lower-case word in every mix of cases.
CaseVariants(w) ==
  IF w = "" THEN {""}
  ELSE {c \o r : c \in {SubSeq(w, 1, 1), UpperChar(SubSeq(w, 1, 1))},
                 r \in CaseVariants(SubSeq(w, 2, Len(w)))}

ModeInputs ==
  UNION {CaseVariants(w) :
           w \in {"disabled", "none", "off", "false", "enabled", "on", "no"}}
    \cup {"", "0", "1", "true", "of", "offf", " off", "off ", "disable",
          "disabled!", "non", "nonee", "fals", "falsey", "o-f-f", "nil",
          "OFF\n", "f@lse"}

Environs ==
  {<<>>} \cup {[k \in {"REDIS_MODE"} |-> v] : v \in ModeInputs}

InitConfig ==
  /\ cfg \in {[NoCfg EXCEPT !.environ = e] : e \in Environs}
  /\ h = [cache |-> "nil"]
  /\ cache = NewMockCache
  /\ storage = NewMockStorage
  /\ req = EmptyBag
  /\ env = 0
  /\ port = NoPort

\* parseRedisMode(os.Getenv("REDIS_MODE"))
ParseMode ==
  /\ cfg.parsed = ""
  /\ cfg' = [cfg EXCEPT !.parsed = parseRedisMode(Getenv(cfg.environ, "REDIS_MODE"))]
  /\ UNCHANGED <<h, cache, storage, req, env, port>>

\* cfg := Load()
LoadConfig ==
  /\ cfg.Redis.Mode = ""
  /\ cfg' = [cfg EXCEPT !.Redis = Load(cfg.environ).Redis]
  /\ UNCHANGED <<h, cache, storage, req, env, port>>

NextConfig == ParseMode \/ LoadConfig

SpecConfig == InitConfig /\ [][NextConfig]_vars

-----------------------------------------------------------------------------
(* A Cache called directly, as the tests of the mocks and the owner of the *)
(* cache do: Get, Set, Ping and Close in any order, under any context,     *)
(* with at most MaxEnv changes of the injected errors.  A command sent     *)
(* through a client that is closed is left out.                            *)

\* Number of calls made on the cache in one behaviour.
MaxOps == 3

\* The error of the context a call is made under.
CtxErrs == {Nil, DeadlineExceeded, Canceled}

InitCache ==
  /\ h \in {[cache |-> i] : i \in {"mock", "redis"}}
  /\ cache = NewMockCache
  /\ storage = NewMockStorage
  /\ req = EmptyBag
  /\ env = 0
  /\ cfg = NoCfg
  /\ port = NoPort

\* The call returns out.
Returns(out) ==
  /\ port.n < MaxOps
  /\ port' = [out |-> out, n |-> port.n + 1]

CallGet(key, ctxErr, obeys) ==
  /\ ~cache.closed
  /\ LET g == CacheGet(h.cache, cache, ctxErr, obeys, key) IN
       /\ cache' = g.cache
       /\ Returns([op |-> "Get", key |-> key, ctx |-> ctxErr,
                   data |-> g.data, found |-> g.found, err |-> g.err])
  /\ UNCHANGED <<h, storage, req, env, cfg>>

CallSet(key, data, ctxErr, obeys) ==
  /\ ~cache.closed
  /\ LET g == CacheSet(h.cache, cache, ctxErr, obeys, key, data) IN
       /\ cache' = g.cache
       /\ Returns([op |-> "Set", key |-> key, ctx |-> ctxErr,
                   data |-> data, found |-> FALSE, err |-> g.err])
  /\ UNCHANGED <<h, storage, req, env, cfg>>

CallPing(ctxErr, obeys) ==
  /\ ~cache.closed
  /\ LET g == CachePing(h.cache, cache, ctxErr, obeys) IN
       /\ cache' = g.cache
       /\ Returns([NoOut EXCEPT !.op = "Ping", !.ctx = ctxErr, !.err = g.err])
  /\ UNCHANGED <<h, storage, req, env, cfg>>

CallClose ==
  /\ LET g == CacheClose(h.cache, cache) IN
       /\ cache' = g.cache
       /\ Returns([NoOut EXCEPT !.op = "Close", !.err = g.err])
  /\ UNCHANGED <<h, storage, req, env, cfg>>

\* An injected error is set or cleared between two calls.
SetFault(field, e) ==
  /\ InjectCacheFault(field, e)
  /\ port' = [port EXCEPT !.out = NoOut]
  /\ UNCHANGED cfg

NextCache ==
  \/ \E key \in Names, ctxErr \in CtxErrs, obeys \in BOOLEAN :
       CallGet(key, ctxErr, obeys)
  \/ \E key \in Names, data \in Bytes, ctxErr \in CtxErrs, obeys \in BOOLEAN :
       CallSet(key, data, ctxErr, obeys)
  \/ \E ctxErr \in CtxErrs, obeys \in BOOLEAN : CallPing(ctxErr, obeys)
  \/ CallClose
  \/ \E field \in {"GetError", "SetError", "PingError", "CloseError"},
        e \in CacheFaults : SetFault(field, e)

SpecCache == InitCache /\ [][NextCache]_vars

-----------------------------------------------------------------------------
(* The mocks called the way their tests call them: one mock is built, then *)
(* its operations are called one after the other, with errors set on its   *)
(* fields in between.  port.mock is the mock under test, port.out the last *)
(* call with what it returned and port.calls the calls the mock recorded.  *)

InitMocks ==
  /\ h = [cache |-> "mock"]
  /\ cache = NewMockCache
  /\ storage = NewMockStorage
  /\ req = EmptyBag
  /\ env = 0
  /\ cfg = NoCfg
  /\ port \in {[out |-> NoOut, n |-> 0, mock |-> "MockCache",
                 calls |-> NoCacheCalls],
                [out |-> NoOut, n |-> 0, mock |-> "MockStorage",
                 calls |-> NoStorageCalls]}

\* The call returns out and the mock has recorded calls.
Replies(out, calls) ==
  /\ port.n < MaxOps
  /\ port' = [port EXCEPT !.out = out, !.n = @ + 1, !.calls = calls]

TestGet(key) ==
  /\ port.mock = "MockCache"
  /\ LET g == MockCacheGet(cache, key) IN
       /\ cache' = g.cache
       /\ Replies([NoOut EXCEPT !.op = "Get", !.key = key, !.data = g.data,
                                !.found = g.found, !.err = g.err],
                  [port.calls EXCEPT
                     !.GetCalls = MockCacheGetCalls(@, key)])
  /\ UNCHANGED <<h, storage, req, env, cfg>>

TestSet(key, data) ==
  /\ port.mock = "MockCache"
  /\ LET g == MockCacheSet(cache, key, data) IN
       /\ cache' = g.cache
       /\ Replies([NoOut EXCEPT !.op = "Set", !.key = key, !.data = data,
                                !.err = g.err],
                  [port.calls EXCEPT
                     !.SetCalls = MockCacheSetCalls(@, key, data)])
  /\ UNCHANGED <<h, storage, req, env, cfg>>

TestSetData(key, data) ==
  /\ port.mock = "MockCache"
  /\ cache' = MockCacheSetData(cache, key, data)
  /\ Replies([NoOut EXCEPT !.op = "SetData", !.key = key, !.data = data],
             port.calls)
  /\ UNCHANGED <<h, storage, req, env, cfg>>

TestClearData ==
  /\ port.mock = "MockCache"
  /\ cache' = MockCacheClearData(cache)
  /\ Replies([NoOut EXCEPT !.op = "ClearData"], port.calls)
  /\ UNCHANGED <<h, storage, req, env, cfg>>

TestCacheReset ==
  /\ port.mock = "MockCache"
  /\ cache' = MockCacheReset(cache)
  /\ Replies([NoOut EXCEPT !.op = "Reset"], NoCacheCalls)
  /\ UNCHANGED <<h, storage, req, env, cfg>>

TestGetObject(key) ==
  /\ port.mock = "MockStorage"
  /\ LET g == MockStorageGetObject(storage, key) IN
       Replies([NoOut EXCEPT !.op = "GetObject", !.key = key,
                            !.data = g.data, !.err = g.err],
               [port.calls EXCEPT !.GetCalls = MockStorageGetCalls(@, key)])
  /\ UNCHANGED <<h, cache, storage, req, env, cfg>>

TestPutObject(key, reader) ==
  /\ port.mock = "MockStorage"
  /\ LET g == MockStoragePutObject(storage, key, reader) IN
       /\ storage' = g.storage
       /\ Replies([op |-> "PutObject", key |-> key, ctx |-> Nil,
                   data |-> reader.content, found |-> FALSE, err |-> g.err,
                   reader |-> reader],
                  [port.calls EXCEPT
                     !.PutCalls = MockStoragePutCalls(@, key, reader)])
  /\ UNCHANGED <<h, cache, req, env, cfg>>

TestDeleteObject(key) ==
  /\ port.mock = "MockStorage"
  /\ LET g == MockStorageDeleteObject(storage, key) IN
       /\ storage' = g.storage
       /\ Replies([NoOut EXCEPT !.op = "DeleteObject", !.key = key,
                                !.err = g.err],
                  [port.calls EXCEPT
                     !.DeleteCalls = MockStorageDeleteCalls(@, key)])
  /\ UNCHANGED <<h, cache, req, env, cfg>>

TestObjectExists(key) ==
  /\ port.mock = "MockStorage"
  /\ LET g == MockStorageObjectExists(storage, key) IN
       Replies([NoOut EXCEPT !.op = "ObjectExists", !.key = key,
                            !.found = g.found, !.err = g.err],
               [port.calls EXCEPT
                  !.ExistsCalls = MockStorageExistsCalls(@, key)])
  /\ UNCHANGED <<h, cache, storage, req, env, cfg>>

TestSetObject(key, data) ==
  /\ port.mock = "MockStorage"
  /\ storage' = MockStorageSetObject(storage, key, data)
  /\ Replies([NoOut EXCEPT !.op = "SetObject", !.key = key, !.data = data],
             port.calls)
  /\ UNCHANGED <<h, cache, req, env, cfg>>

TestClearObjects ==
  /\ port.mock = "MockStorage"
  /\ storage' = MockStorageClearObjects(storage)
  /\ Replies([NoOut EXCEPT !.op = "ClearObjects"], port.calls)
  /\ UNCHANGED <<h, cache, req, env, cfg>>

TestStorageReset ==
  /\ port.mock = "MockStorage"
  /\ storage' = MockStorageReset(storage)
  /\ Replies([NoOut EXCEPT !.op = "Reset"], NoStorageCalls)
  /\ UNCHANGED <<h, cache, req, env, cfg>>

\* mock.GetError = e and the like, between two calls.
TestCacheError(field, e) ==
  /\ port.mock = "MockCache"
  /\ InjectCacheFault(field, e)
  /\ port' = [port EXCEPT !.out = NoOut]
  /\ UNCHANGED cfg

TestStorageError(field, e) ==
  /\ port.mock = "MockStorage"
  /\ InjectStorageFault(field, e)
  /\ port' = [port EXCEPT !.out = NoOut]
  /\ UNCHANGED cfg

NextMocks ==
  \/ \E key \in Names : TestGet(key)
  \/ \E key \in Names, data \in Bytes : TestSet(key, data)
  \/ \E key \in Names, data \in Bytes : TestSetData(key, data)
  \/ TestClearData
  \/ TestCacheReset
  \/ \E key \in Names : TestGetObject(key)
  \/ \E key \in Names, reader \in Readers : TestPutObject(key, reader)
  \/ \E key \in Names : TestDeleteObject(key)
  \/ \E key \in Names : TestObjectExists(key)
  \/ \E key \in Names, data \in Bytes : TestSetObject(key, data)
  \/ TestClearObjects
  \/ TestStorageReset
  \/ \E field \in {"GetError", "SetError"}, e \in CacheFaults :
       TestCacheError(field, e)
  \/ \E field \in {"GetError", "PutError", "DeleteError", "ExistsError"},
        e \in StorageFaults : TestStorageError(field, e)

SpecMocks == InitMocks /\ [][NextMocks]_vars

-----------------------------------------------------------------------------
(* GetFile over any implementation of the Cache interface: Get may return  *)
(* every combination of bytes, found and error its signature allows, and   *)
(* Set every error.                                                        *)

GetReturns ==
  {[cache |-> NewMockCache, data |-> d, found |-> f, err |-> e] :
     d \in Bytes \cup {NoBytes}, f \in BOOLEAN,
     e \in {Nil, ErrCacheUnavailable}}

InitAnyCache ==
  /\ h = [cache |-> "any"]
  /\ cache = NewMockCache
  /\ storage = [NewMockStorage EXCEPT !.objects = MapSet(@, "a.txt", "hello")]
  /\ req = EmptyBag
  /\ env = 0
  /\ cfg = NoCfg
  /\ port = NoPort

\* h.cache.Get returns g.
AnyGet(rq, g) ==
  /\ rq.pc = "cache"
  /\ Step(rq, AfterCacheGet(rq, g))
  /\ UNCHANGED <<h, cache, storage, env>>

\* h.cache.Set returns e.
AnySet(rq, e) ==
  /\ rq.wb = "set"
  /\ Step(rq, AfterCacheSet(rq, [cache |-> cache, err |-> e]))
  /\ UNCHANGED <<h, cache, storage, env>>

NextAnyCache ==
  /\ \/ \E name \in PathValues : GetFileStart(name)
     \/ \E rq \in Requests, g \in GetReturns : AnyGet(rq, g)
     \/ \E rq \in Requests : StorageFetch(rq)
     \/ \E rq \in Requests : Respond(rq)
     \/ \E rq \in Requests : WriteBackBegin(rq)
     \/ \E rq \in Requests, e \in CacheFaults : AnySet(rq, e)
  /\ UNCHANGED <<cfg, port>>

SpecAnyCache == InitAnyCache /\ [][NextAnyCache]_vars

-----------------------------------------------------------------------------
(* The properties of the handlers.                                         *)

\* This step is a step of request rq, which it leaves as rq2: the bag loses
\* one rq and gains one rq2.
Moves(rq, rq2) ==
  /\ rq2 # rq
  /\ CopiesIn(rq, req') = CopiesIn(rq, req) - 1
  /\ CopiesIn(rq2, req') = CopiesIn(rq2, req) + 1

\* The step is one of request rq's handler goroutine: it leaves where it was.
Advances(rq, rq2) == rq2.pc # rq.pc /\ Moves(rq, rq2)

\* The request has called the port operation op.
Made(rq, op) == \E i \in 1..Len(rq.calls) : rq.calls[i] = op

\* How many times the request has called op.
Count(rq, op) == Cardinality({i \in 1..Len(rq.calls) : rq.calls[i] = op})

\* The step in which cache.Get reports found answers 200 with the bytes the
\* cache holds for the name and leaves the storage alone.
C1_HitStep ==
  \A rq \in Requests :
    rq.pc = "cache" =>
      \A rq2 \in BagToSet(req') :
        (rq2.found /\ Advances(rq, rq2)) =>
          /\ rq.name \in DOMAIN cache.data
          /\ rq2.pc = "done"
          /\ rq2.resp.status = StatusOK
          /\ rq2.resp.body = cache.data[rq.name]
          /\ storage' = storage

\* A request that was told found has made no storage call and makes none.
C1_HitState ==
  \A rq \in Requests :
    rq.found =>
      /\ rq.pc = "done"
      /\ rq.resp.status = StatusOK
      /\ rq.resp.body = rq.cdata
      /\ rq.calls = <<"cache.Get">>
      /\ rq.wb = "none"

\* C1: a request whose cache.Get reports found is answered 200 with exactly
\* the cached bytes and never calls storage.GetObject, whatever the storage
\* holds for the key.
C1_CacheHitNeverTouchesStorage == []C1_HitState /\ [][C1_HitStep]_vars

\* A hit answered with bytes that differ from what the storage holds now.
C1_Witness ==
  \E rq \in Requests :
    /\ rq.found /\ rq.pc = "done"
    /\ rq.name \in DOMAIN storage.objects
    /\ storage.objects[rq.name] # rq.resp.body

\* A key the cache does not hold is a miss, the fetch of a key the storage
\* holds (and returns) hands its bytes to the handler, and the handler sends
\* them.
C2_MissStep ==
  \A rq \in Requests :
    /\ (rq.pc = "cache" /\ rq.name \notin DOMAIN cache.data) =>
         \A rq2 \in BagToSet(req') :
           Advances(rq, rq2) => rq2.pc = "storage" /\ ~rq2.found
    /\ (rq.pc = "storage" /\ storage.GetError = Nil
          /\ rq.name \in DOMAIN storage.objects) =>
         \A rq2 \in BagToSet(req') :
           Advances(rq, rq2) =>
             /\ rq2.pc = "respond"
             /\ rq2.data = storage.objects[rq.name]
             /\ rq2.err = Nil
             /\ Count(rq2, "storage.GetObject") = 1
    /\ rq.pc = "respond" =>
         \A rq2 \in BagToSet(req') :
           Advances(rq, rq2) =>
             rq2.pc = "done" /\ rq2.resp = writeFileResponse(rq.name, rq.data)

\* A request on the miss path whose fetch succeeded has called GetObject once
\* and its answer, once written, is 200 with the fetched bytes.
C2_MissState ==
  \A rq \in Requests :
    (rq.kind = "GetFile" /\ ~rq.found /\ rq.err = Nil
       /\ rq.pc \in {"respond", "done"} /\ rq.name # "") =>
      /\ Count(rq, "storage.GetObject") = 1
      /\ rq.data \in Bytes
      /\ rq.pc = "done" =>
           /\ rq.resp.status = StatusOK
           /\ rq.resp.body = rq.data

\* C2: for a key absent from the cache and present in storage GetFile calls
\* storage.GetObject and answers 200 with exactly the bytes storage returned.
C2_MissServedFromStorage == []C2_MissState /\ [][C2_MissStep]_vars

\* A clean miss answered 200 with what the storage holds.
C2_Witness ==
  \E rq \in Requests :
    /\ rq.kind = "GetFile" /\ rq.pc = "done" /\ h.cache # "nil"
    /\ rq.calls = <<"cache.Get", "storage.GetObject">>
    /\ rq.cerr = Nil /\ ~rq.found
    /\ rq.resp.status = StatusOK
    /\ rq.name \in DOMAIN storage.objects
    /\ rq.resp.body = storage.objects[rq.name]

\* The messages of GetFile's envelopes.
GetFileMessages ==
  {"", "filename is required", "Request timeout", "File not found",
   "Failed to retrieve file"}

\* A request whose cache.Get failed is a miss; once answered it has asked the
\* storage, a failure status comes with a storage error, and the answer
\* carries nothing of the cache error.
C3_ErrState ==
  \A rq \in Requests :
    (rq.kind = "GetFile" /\ rq.cerr # Nil) =>
      /\ ~rq.found
      /\ rq.pc \in {"storage", "respond", "done"}
      /\ rq.pc = "done" =>
           /\ Len(rq.calls) >= 2
           /\ SubSeq(rq.calls, 1, 2) = <<"cache.Get", "storage.GetObject">>
           /\ Count(rq, "storage.GetObject") = 1
           /\ rq.resp.message \in GetFileMessages
           /\ rq.resp.body = rq.data
           /\ rq.err = Nil <=> rq.resp.status = StatusOK

\* The fetch of a request whose cache.Get failed: a key the storage holds is
\* handed over for the 200; for a key it does not hold the answer is
\* notFound.
C3_ErrFetch(notFound) ==
  \A rq \in Requests :
    (rq.pc = "storage" /\ rq.cerr # Nil /\ storage.GetError = Nil) =>
      \A rq2 \in BagToSet(req') :
        Advances(rq, rq2) =>
          IF rq.name \in DOMAIN storage.objects
            THEN /\ rq2.pc = "respond"
                 /\ rq2.data = storage.objects[rq.name]
            ELSE /\ rq2.pc = "done"
                 /\ rq2.resp.status = notFound

\* C3 as stated: after a failed cache.Get the answer is 200 with the storage
\* bytes, or 404 when storage has no such key.
C3_AsStated == []C3_ErrState /\ [][C3_ErrFetch(StatusNotFound)]_vars

\* The fetch of a request whose cache.Get failed, with the deadline: for a
\* key the storage does not hold the answer is 404, or 504 when the request's
\* deadline has elapsed.
C3_ErrFetchDeadline ==
  \A rq \in Requests :
    (rq.pc = "storage" /\ rq.cerr # Nil /\ storage.GetError = Nil) =>
      \A rq2 \in BagToSet(req') :
        Advances(rq, rq2) =>
          IF rq.name \in DOMAIN storage.objects
            THEN /\ rq2.pc = "respond"
                 /\ rq2.data = storage.objects[rq.name]
            ELSE /\ rq2.pc = "done"
                 /\ rq2.resp.status =
                      IF rq.ctxErr = DeadlineExceeded
                        THEN StatusGatewayTimeout ELSE StatusNotFound

\* C3 (amended): after a failed cache.Get GetFile still queries storage and
\* answers with storage's answer: 200 with the storage bytes, or for a key
\* storage does not hold 404, unless the request's deadline has elapsed and
\* the answer is 504; the cache error is not in the response and makes no
\* failure status.
C3_CacheErrorFallsBackToStorage ==
  []C3_ErrState /\ [][C3_ErrFetchDeadline]_vars

\* A request whose cache.Get failed, answered 200 with the storage's bytes.
C3_Witness ==
  \E rq \in Requests :
    /\ rq.kind = "GetFile" /\ rq.pc = "done" /\ rq.cerr # Nil
    /\ rq.resp.status = StatusOK
    /\ rq.name \in DOMAIN storage.objects
    /\ rq.resp.body = storage.objects[rq.name]

\* The request ended as CacheMissStorageHit and its write-back has completed.
C4_WrittenBack(rq1) ==
  /\ rq1.kind = "GetFile" /\ rq1.pc = "done" /\ ~rq1.found
  /\ rq1.err = Nil /\ rq1.resp.status = StatusOK
  /\ rq1.wb = "done"

\* The lookup of a later request for the name of rq1 is a hit with the bytes
\* of rq1's response and no storage call.
C4_HitLike(rq1, rq2) ==
  /\ rq2.found /\ rq2.pc = "done"
  /\ rq2.resp = rq1.resp
  /\ ~Made(rq2, "storage.GetObject")

\* The Set of rq1's write-back succeeded and the cache holds what it wrote.
C4_EntryKept(rq1) ==
  /\ C4_WrittenBack(rq1) /\ rq1.wbErr = Nil
  /\ rq1.name \in DOMAIN cache.data
  /\ cache.data[rq1.name] = rq1.data

\* The lookup of a request for a name whose entry is kept is a hit like the
\* first response; with getFails, also when its cache.Get returns an error.
C4_LookupStep(getFails) ==
  \A rq \in Requests :
    rq.pc = "cache" =>
      \A rq1 \in Requests :
        (C4_EntryKept(rq1) /\ rq1.name = rq.name) =>
          \A rq2 \in BagToSet(req') :
            ((getFails \/ rq2.cerr = Nil) /\ Advances(rq, rq2)) =>
              C4_HitLike(rq1, rq2)

\* C4 as stated: once the write-back of a CacheMissStorageHit for k has
\* completed, any later GetFile for k, the entry for k unchanged, is served
\* as a cache hit with the bytes of the first response and calls no
\* storage.GetObject.
C4_AsStated == [][C4_LookupStep(TRUE)]_vars

\* The write-back stores the fetched bytes, the bytes of the response, under
\* the request's name when its Set succeeds.
C4_SetStep ==
  \A rq \in Requests :
    rq.wb = "set" =>
      \A rq2 \in BagToSet(req') :
        (rq2.wb = "done" /\ rq2.wbErr = Nil /\ Moves(rq, rq2)) =>
          /\ rq.name \in DOMAIN cache'.data
          /\ cache'.data[rq.name] = rq.data
          /\ rq.pc = "done" => rq.resp.body = rq.data

\* C4 (amended): with a cache configured, after a GetFile for k ended as
\* CacheMissStorageHit and the Set of its write-back succeeded, a later
\* GetFile for k whose cache.Get does not fail is served as a cache hit with
\* bytes identical to those of the first response and without a call of
\* storage.GetObject, as long as the cache still holds the entry written.
C4_WriteBackThenHit == [][C4_SetStep /\ C4_LookupStep(FALSE)]_vars

\* A CacheMissStorageHit, its write-back completed, and a second request for
\* the same name served as a hit with the same response: one storage call.
C4_Witness ==
  \E rq1, rq2 \in Requests :
    /\ C4_EntryKept(rq1)
    /\ rq2.name = rq1.name
    /\ rq1.calls = <<"cache.Get", "storage.GetObject", "cache.Set">>
    /\ rq2.calls = <<"cache.Get">>
    /\ C4_HitLike(rq1, rq2)

\* C5: with no cache the handlers call no cache operation and schedule no
\* write-back, and every GetFile with a non-empty name calls
\* storage.GetObject exactly once.
C5_NilCacheGoesToStorage ==
  h.cache = "nil" =>
    /\ cache = NewMockCache
    /\ \A rq \in Requests :
         /\ ~Made(rq, "cache.Get") /\ ~Made(rq, "cache.Set")
         /\ ~Made(rq, "cache.Ping")
         /\ rq.wb = "none"
         /\ rq.pc \notin {"cache", "ping"}
         /\ (rq.kind = "GetFile" /\ rq.name # "") =>
              Count(rq, "storage.GetObject") =
                IF rq.pc = "storage" THEN 0 ELSE 1
         /\ (rq.kind = "Health" /\ rq.pc = "done") =>
              rq.health.redis = "disabled"

\* Without a cache: a file served and a health check answered.
C5_Witness ==
  /\ h.cache = "nil"
  /\ \E rq \in Requests :
       /\ rq.kind = "GetFile" /\ rq.pc = "done"
       /\ rq.resp.status = StatusOK /\ rq.resp.body \in Bytes
       /\ rq.calls = <<"storage.GetObject">>
  /\ \E rq \in Requests :
       /\ rq.kind = "Health" /\ rq.pc = "done"
       /\ rq.calls = <<"storage.HealthCheck">>

\* The step that answers a health check: the status follows the storage's
\* HealthCheck alone.
C6_CheckStep ==
  \A rq \in Requests :
    rq.pc = "check" =>
      \A rq2 \in BagToSet(req') :
        Advances(rq, rq2) =>
          /\ rq2.pc = "done"
          /\ rq2.health.redis = rq.health.redis
          /\ IF storage.HealthCheckError = Nil
               THEN /\ rq2.resp.status = StatusOK
                    /\ rq2.resp.success
                    /\ rq2.health.status = "healthy"
               ELSE /\ rq2.resp.status = StatusServiceUnavailable
                    /\ ~rq2.resp.success
                    /\ rq2.health.status = "unhealthy"

\* An answered health check is 200/healthy or 503/unhealthy, and healthy
\* exactly when HealthCheck returned no error.
C6_State ==
  \A rq \in Requests :
    (rq.kind = "Health" /\ rq.pc = "done") =>
      /\ rq.resp.status \in {StatusOK, StatusServiceUnavailable}
      /\ rq.resp.status = StatusOK <=> rq.err = Nil
      /\ rq.resp.success <=> rq.err = Nil
      /\ rq.health.status = "healthy" <=> rq.err = Nil

\* C6: Health answers healthy (200, success) if and only if
\* storage.HealthCheck succeeds, for every state of the cache.
C6_HealthFollowsStorage == []C6_State /\ [][C6_CheckStep]_vars

\* A health check whose Ping failed, answered healthy with 200.
C6_Witness ==
  \E rq \in Requests :
    /\ rq.kind = "Health" /\ rq.pc = "done"
    /\ rq.cerr # Nil /\ Contains(rq.health.redis, "unhealthy: ")
    /\ rq.resp.status = StatusOK /\ rq.resp.success

\* C7: a failed storage.GetObject is answered 504 "Request timeout" when the
\* request's deadline has elapsed, else 404 "File not found" when the error
\* is a not-found error, else 500 "Failed to retrieve file"; always with
\* success = false.
C7_StorageErrorClassification ==
  [][\A rq \in Requests :
       rq.pc = "storage" =>
         \A rq2 \in BagToSet(req') :
           (rq2.err # Nil /\ Advances(rq, rq2)) =>
             /\ rq2.pc = "done"
             /\ rq2.err = MockStorageGetObject(storage, rq.name).err
             /\ ~rq2.resp.success
             /\ rq2.resp.body = NoBytes
             /\ rq2.wb = "none"
             /\ <<rq2.resp.status, rq2.resp.message>> =
                  IF rq.ctxErr = DeadlineExceeded
                    THEN <<StatusGatewayTimeout, "Request timeout">>
                  ELSE IF isNotFoundError(rq2.err)
                    THEN <<StatusNotFound, "File not found">>
                  ELSE <<StatusInternalServerError, "Failed to retrieve file">>
    ]_vars

\* A not-found error answered 504 because the deadline had elapsed.
C7_Witness ==
  \E rq \in Requests :
    /\ rq.pc = "done" /\ rq.err = ErrObjectNotFound
    /\ rq.ctxErr = DeadlineExceeded
    /\ rq.resp.status = StatusGatewayTimeout

\* A GetFile with the empty name is answered 400 and calls nothing.
C8_State ==
  \A rq \in Requests :
    (rq.kind = "GetFile" /\ rq.name = "") =>
      /\ rq.pc = "done"
      /\ rq.resp.status = StatusBadRequest
      /\ ~rq.resp.success
      /\ rq.calls = <<>>
      /\ rq.wb = "none"

\* The step in which it arrives leaves the cache and the storage as they are.
C8_Step ==
  \A rq2 \in BagToSet(req') :
    (/\ rq2.kind = "GetFile" /\ rq2.name = ""
     /\ CopiesIn(rq2, req') = CopiesIn(rq2, req) + 1) =>
      cache' = cache /\ storage' = storage

\* C8: GetFile with an empty file name answers 400 and makes no port call:
\* no cache.Get, no storage.GetObject, no cache.Set, and the cache and the
\* storage are unchanged.
C8_EmptyNameRejected == []C8_State /\ [][C8_Step]_vars

\* An empty name refused while another request's file is in the cache.
C8_Witness ==
  /\ \E rq \in Requests :
       rq.kind = "GetFile" /\ rq.name = "" /\ rq.resp.status = StatusBadRequest
  /\ cache.data # <<>>

C10_State ==
  \A rq \in Requests :
    /\ rq.wb = "scheduled" => ENABLED WriteBackBegin(rq)
    /\ rq.wb = "set" => ENABLED (\E obeys \in BOOLEAN : WriteBackSet(rq, obeys))

\* The outcome of its Set is decided by the cache and by the write-back's own
\* deadline: with neither a fault nor that deadline the entry is written, and
\* the request's cancellation is never the error.
C10_SetStep ==
  \A rq \in Requests :
    rq.wb = "set" =>
      \A rq2 \in BagToSet(req') :
        (rq2.wb = "done" /\ Moves(rq, rq2)) =>
          /\ (cache.SetError = Nil /\ rq.bgCtxErr = Nil) =>
               /\ rq2.wbErr = Nil
               /\ rq.name \in DOMAIN cache'.data
               /\ cache'.data[rq.name] = rq.data
          /\ ~Contains(rq2.wbErr, Canceled)
          /\ Contains(rq2.wbErr, DeadlineExceeded) =>
               rq.bgCtxErr = DeadlineExceeded

\* C10: a scheduled write-back is not cancelled by its request: when the
\* client goes away or the request's deadline lapses after the fetch, Set
\* still runs, under its own deadline, and completes or fails on its own.
C10_WriteBackDetached == []C10_State /\ [][C10_SetStep]_vars

\* The request's deadline lapsed, the handler answered, and the write-back
\* (through a client that honours contexts) stored the entry all the same.
C10_Witness ==
  /\ h.cache = "redis"
  /\ \E rq \in Requests :
       /\ rq.ctxErr = DeadlineExceeded /\ rq.pc = "done"
       /\ rq.resp.status = StatusOK
       /\ rq.wb = "done" /\ rq.wbErr = Nil
       /\ rq.name \in DOMAIN cache.data /\ cache.data[rq.name] = rq.data

\* A request calls Set at most once, when its write-back ends, and a request
\* that started a write-back is answered with the fetched bytes whatever
\* became of the Set.
C11_State ==
  \A rq \in Requests :
    /\ Count(rq, "cache.Set") <= 1
    /\ rq.wb = "done" <=> Made(rq, "cache.Set")
    /\ rq.wb # "done" => rq.wbErr = Nil
    /\ (rq.pc = "done" /\ rq.wb # "none") =>
         rq.resp = writeFileResponse(rq.name, rq.data)

\* The return of Set changes nothing of the request but the goroutine's end
\* and the logged error; an ended write-back stays ended; and the response
\* is made of the fetched bytes alone.
C11_Step ==
  \A rq \in Requests :
    /\ rq.wb = "set" =>
         \A rq2 \in BagToSet(req') :
           (rq2.wb # "set" /\ Moves(rq, rq2)) =>
             rq2 = [rq EXCEPT !.wb = "done", !.wbErr = rq2.wbErr,
                              !.calls = Append(@, "cache.Set")]
    /\ rq.wb = "done" =>
         \A rq2 \in BagToSet(req') :
           Moves(rq, rq2) =>
             /\ rq2.wb = "done" /\ rq2.wbErr = rq.wbErr
             /\ Count(rq2, "cache.Set") = 1
    /\ rq.pc = "respond" =>
         \A rq2 \in BagToSet(req') :
           Advances(rq, rq2) =>
             /\ rq2.resp = writeFileResponse(rq.name, rq.data)
             /\ rq2.wb = rq.wb /\ rq2.wbErr = rq.wbErr

\* C11: a failing write-back is never surfaced and never retried: the
\* status and body of the GetFile response are the same whether cache.Set
\* succeeds or fails, and a GetFile request causes at most one cache.Set.
C11_WriteBackFailureSilent == []C11_State /\ [][C11_Step]_vars

\* Two requests for one file, the Set of the one failed and of the other
\* succeeded: the same response.
C11_Witness ==
  \E rq1, rq2 \in Requests :
    /\ rq1.pc = "done" /\ rq2.pc = "done"
    /\ rq1.wb = "done" /\ rq2.wb = "done"
    /\ rq1.wbErr # Nil /\ rq2.wbErr = Nil
    /\ rq1.resp = rq2.resp /\ rq1.resp.status = StatusOK
    /\ rq1.resp.body \in Bytes

\* A request has a write-back only with a cache configured and after its own
\* GetObject returned its data without error; hits and the requests answered
\* 400, 404, 500 or 504 have none; and the bytes handed to Set are the bytes
\* of the response.
C12_State ==
  \A rq \in Requests :
    /\ rq.wb # "none" =>
         /\ h.cache # "nil"
         /\ rq.kind = "GetFile" /\ rq.name # ""
         /\ ~rq.found /\ rq.err = Nil
         /\ rq.pc \in {"respond", "done"}
         /\ Len(rq.calls) >= 2
         /\ SubSeq(rq.calls, 1, 2) = <<"cache.Get", "storage.GetObject">>
         /\ WriteBackArgs(rq) = [key |-> rq.name, data |-> rq.data]
         /\ rq.pc = "done" =>
              rq.resp.status = StatusOK /\ rq.resp.body = rq.data
    /\ (rq.found \/ rq.err # Nil \/ rq.name = "") =>
         rq.wb = "none" /\ ~Made(rq, "cache.Set")
    /\ (rq.pc = "done" /\ rq.resp.status # StatusOK) =>
         rq.wb = "none" /\ ~Made(rq, "cache.Set")

\* The write-back is started by the fetch that returned the stored bytes, and
\* the cache's entries change only by the Set of a started write-back, which
\* writes that request's name and bytes.
C12_Step ==
  /\ \A rq \in Requests :
       rq.pc = "storage" =>
         \A rq2 \in BagToSet(req') :
           (rq2.wb # "none" /\ Advances(rq, rq2)) =>
             /\ storage.GetError = Nil
             /\ rq.name \in DOMAIN storage.objects
             /\ rq2.data = storage.objects[rq.name]
  /\ cache'.data # cache.data =>
       \E rq \in Requests :
         /\ rq.wb = "set"
         /\ cache'.data = MapSet(cache.data, rq.name, rq.data)
         /\ \E rq2 \in BagToSet(req') :
              rq2.wb = "done" /\ rq2.wbErr = Nil /\ Moves(rq, rq2)

\* C12: cache.Set(k, b) is called by GetFile only when that request's
\* storage.GetObject(k) returned b without error: no Set on a cache hit, on
\* 404, 500, 504 or 400, and the key and bytes written are those returned to
\* the client.
C12_SetOnlyAfterFetch == []C12_State /\ [][C12_Step]_vars

\* One request fetched a file and wrote it back; another was answered 404
\* and wrote nothing.
C12_Witness ==
  \E rq1, rq2 \in Requests :
    /\ rq1.pc = "done" /\ rq1.wb = "done" /\ rq1.wbErr = Nil
    /\ rq1.name \in DOMAIN cache.data
    /\ cache.data[rq1.name] = rq1.resp.body
    /\ rq2.pc = "done" /\ rq2.resp.status = StatusNotFound
    /\ rq2.wb = "none" /\ rq2.name \notin DOMAIN cache.data

\* The request's deadline has elapsed and its handler is at the cache lookup
\* or at the storage fetch.
C13_Overdue(rq) ==
  /\ rq.kind = "GetFile" /\ rq.ctxErr = DeadlineExceeded
  /\ rq.pc \in {"cache", "storage"}

C13_OverdueStep ==
  \A rq \in Requests :
    C13_Overdue(rq) =>
      \A rq2 \in BagToSet(req') :
        Advances(rq, rq2) =>
          /\ rq2.pc = "done" =>
               IF rq2.found
                 THEN rq2.resp = writeFileResponse(rq.name, rq2.cdata)
                 ELSE /\ rq2.err # Nil
                      /\ rq2.resp = writeJSON(StatusGatewayTimeout, FALSE,
                                              "Request timeout")
          /\ rq2.pc = "respond" => rq2.err = Nil /\ ~rq2.found
          /\ rq2.pc = "storage" => ~rq2.found

\* An answered request whose deadline had elapsed has 200 or 504, and 504
\* exactly when its fetch failed.
C13_OverdueState ==
  \A rq \in Requests :
    (rq.kind = "GetFile" /\ rq.pc = "done"
       /\ rq.ctxErr = DeadlineExceeded) =>
      /\ rq.resp.status \in {StatusOK, StatusGatewayTimeout}
      /\ rq.resp.status = StatusGatewayTimeout <=> rq.err # Nil

C14_Written(k) ==
  {rq \in Requests : rq.name = k /\ rq.wb = "done" /\ rq.wbErr = Nil}

\* No write-back for k is scheduled or running.
C14_AllCompleted(k) ==
  \A rq \in Requests : rq.name = k => rq.wb \in {"none", "done"}

\* The entry of k is the bytes of one of the write-backs that succeeded, and
\* the bytes storage holds for k when that is what each of them fetched.
C14_State ==
  \A k \in Names :
    /\ k \in DOMAIN cache.data <=> C14_Written(k) # {}
    /\ (C14_AllCompleted(k) /\ C14_Written(k) # {}) =>
         /\ cache.data[k] \in {rq.data : rq \in C14_Written(k)}
         /\ (/\ k \in DOMAIN storage.objects
             /\ \A rq \in C14_Written(k) : rq.data = storage.objects[k]) =>
              cache.data[k] = storage.objects[k]

\* Last write wins: a Set that succeeds leaves its own bytes as the entry of
\* its key whatever the entry was, and touches no other key; no other step
\* changes an entry.
C14_Step ==
  /\ \A rq \in Requests :
       rq.wb = "set" =>
         \A rq2 \in BagToSet(req') :
           (rq2.wb = "done" /\ rq2.wbErr = Nil /\ Moves(rq, rq2)) =>
             cache'.data = MapSet(cache.data, rq.name, rq.data)
  /\ (\A rq \in Requests : rq.wb = "set" =>
        \A rq2 \in BagToSet(req') :
          ~(rq2.wb = "done" /\ rq2.wbErr = Nil /\ Moves(rq, rq2))) =>
       cache'.data = cache.data

\* C14: concurrent write-backs for one key race harmlessly: once all have
\* completed the entry of k is the bytes of the write-back whose Set
\* executed last, and equals storage's bytes for k when storage's content
\* for k did not change during those requests.
C14_LastWriteWins == []C14_State /\ [][C14_Step]_vars

\* Two write-backs for one key raced, with different bytes because the
\* stored object changed between the fetches; the Set of the older fetch
\* executed last and its bytes are the entry.
C14_Witness ==
  \E rq1, rq2 \in Requests :
    /\ rq1.name = rq2.name /\ rq1.data # rq2.data
    /\ rq1 \in C14_Written(rq1.name) /\ rq2 \in C14_Written(rq1.name)
    /\ rq1.name \in DOMAIN cache.data
    /\ cache.data[rq1.name] = rq1.data
    /\ rq1.name \in DOMAIN storage.objects
    /\ storage.objects[rq1.name] = rq2.data

\* A request has called GetObject at most once: not yet while it is at the
\* fetch, and once a fetch has failed the request is answered with the
\* failure.
C15_State ==
  \A rq \in Requests :
    /\ Count(rq, "storage.GetObject") <= 1
    /\ rq.pc \in {"cache", "storage"} => ~Made(rq, "storage.GetObject")
    /\ (rq.kind = "GetFile" /\ rq.err # Nil) =>
         /\ rq.pc = "done"
         /\ Count(rq, "storage.GetObject") = 1
         /\ ~rq.resp.success
         /\ rq.resp.status \in {StatusNotFound, StatusInternalServerError,
                                StatusGatewayTimeout}

\* The fetch ends the request's dealings with storage: it answers or goes
\* on to the response, and no later step of the request calls storage.
C15_Step ==
  \A rq \in Requests :
    /\ rq.pc = "storage" =>
         \A rq2 \in BagToSet(req') :
           (Made(rq2, "storage.GetObject") /\ Moves(rq, rq2)) =>
             /\ rq2.pc = IF rq2.err # Nil THEN "done" ELSE "respond"
             /\ rq2.calls = Append(rq.calls, "storage.GetObject")
    /\ Made(rq, "storage.GetObject") =>
         \A rq2 \in BagToSet(req') :
           Moves(rq, rq2) =>
             /\ Count(rq2, "storage.GetObject") = 1
             /\ rq2.err = rq.err /\ rq2.data = rq.data

\* C15: the handler never retries the storage fetch: a GetFile request
\* calls storage.GetObject at most once, and after a failed GetObject it
\* responds with the error status without calling storage again.
C15_NoStorageRetry == []C15_State /\ [][C15_Step]_vars

\* A fetch failed on a storage fault: answered 500 after the one call.
C15_Witness ==
  \E rq \in Requests :
    /\ rq.kind = "GetFile" /\ rq.pc = "done"
    /\ rq.err = ErrStorageError
    /\ rq.resp.status = StatusInternalServerError
    /\ Count(rq, "storage.GetObject") = 1

\* What Ping can return in the current state of the cache: the injected or
\* current fault, or through the client of RedisCache the error of a done
\* context.
C16_PingOutcomes(rq) ==
  IF cache.PingError # Nil THEN {cache.PingError}
  ELSE IF h.cache = "redis" /\ rq.ctxErr # Nil THEN {Nil, rq.ctxErr}
  ELSE {Nil}

\* The cache field of a health check past its cache block.
C16_State ==
  \A rq \in Requests :
    (rq.kind = "Health" /\ rq.pc \in {"check", "done"}) =>
      /\ rq.health.redis = "disabled" <=> h.cache = "nil"
      /\ Made(rq, "cache.Ping") <=> h.cache # "nil"
      /\ Count(rq, "cache.Ping") <= 1
      /\ rq.health.redis = "healthy" <=> (h.cache # "nil" /\ rq.cerr = Nil)
      /\ rq.health.redis = "unhealthy: " \o rq.cerr
           <=> (h.cache # "nil" /\ rq.cerr # Nil)

\* Each health check pings the cache as it is now, and the answer, 200 or
\* 503, carries the field the ping gave.
C16_Step ==
  \A rq \in Requests :
    /\ rq.pc = "ping" =>
         \A rq2 \in BagToSet(req') :
           Advances(rq, rq2) =>
             /\ rq2.cerr \in C16_PingOutcomes(rq)
             /\ rq2.calls = Append(rq.calls, "cache.Ping")
    /\ rq.pc = "check" =>
         \A rq2 \in BagToSet(req') :
           Advances(rq, rq2) =>
             /\ rq2.health.redis = rq.health.redis
             /\ rq2.resp.status \in {StatusOK, StatusServiceUnavailable}

\* C16: the cache field of every Health response is "disabled" exactly when
\* no cache is configured, "healthy" exactly when the configured cache's
\* Ping succeeds and "unhealthy: <reason>" exactly when it fails; it is in
\* the 200 and in the 503 response, and each Health request probes again.
C16_HealthCacheField == []C16_State /\ [][C16_Step]_vars

\* Two health checks of one service: 200 with a healthy cache, then, every
\* backend down, 503 with the reason the ping failed.
C16_Witness ==
  \E rq1, rq2 \in Requests :
    /\ rq1.kind = "Health" /\ rq1.pc = "done"
    /\ rq1.resp.status = StatusOK /\ rq1.health.redis = "healthy"
    /\ rq2.kind = "Health" /\ rq2.pc = "done"
    /\ rq2.resp.status = StatusServiceUnavailable
    /\ rq2.health.redis = "unhealthy: " \o ErrCacheUnavailable

\* The operations of the ports the handlers call.
C17_ReadPathCalls ==
  {"cache.Get", "cache.Set", "cache.Ping",
   "storage.GetObject", "storage.HealthCheck"}

\* No request has called PutObject, DeleteObject, ObjectExists or any other
\* operation outside the read path.
C17_State ==
  \A rq \in Requests :
    \A i \in 1..Len(rq.calls) : rq.calls[i] \in C17_ReadPathCalls

\* A step of a handler or of a write-back (any step that is no out-of-band
\* event) leaves the storage as it is and removes no entry of the cache; an
\* entry it adds or replaces is the name and the fetched bytes of a request
\* whose Set is running.
C17_Step ==
  env' = env =>
    /\ storage' = storage
    /\ DOMAIN cache.data \subseteq DOMAIN cache'.data
    /\ \A k \in DOMAIN cache'.data :
         (k \notin DOMAIN cache.data \/ cache'.data[k] # cache.data[k]) =>
           \E rq \in Requests :
             /\ rq.wb = "set" /\ rq.name = k /\ rq.err = Nil
             /\ cache'.data[k] = rq.data
             /\ Made(rq, "storage.GetObject")

\* C17: the read path never mutates storage and never deletes from the
\* cache: over any sequence of GetFile and Health requests PutObject,
\* DeleteObject and ObjectExists are never called, the stored objects are
\* unchanged, and the only cache mutation is the Set of a fetched key.
C17_ReadPathFrame == []C17_State /\ [][C17_Step]_vars

\* A file fetched, written back and then served from the cache: the stored
\* objects are those of the start and the entry is still in the cache.
C17_Witness ==
  /\ env = 0
  /\ storage = [NewMockStorage EXCEPT !.objects = MapSet(@, "a.txt", "hello")]
  /\ \E rq1, rq2 \in Requests :
       /\ rq1.pc = "done" /\ rq1.wb = "done"
       /\ rq2.pc = "done" /\ rq2.found
       /\ rq2.name \in DOMAIN cache.data
       /\ cache.data[rq2.name] = rq2.resp.body

\* a and b are equal but for the case of their letters.
C19_EqualFold(a, b) ==
  /\ Len(a) = Len(b)
  /\ \A i \in 1..Len(a) :
       LET x == SubSeq(a, i, i)
           y == SubSeq(b, i, i)
       IN \/ x = y
          \/ \E j \in 1..Len(UpperCase) :
               {x, y} = {SubSeq(UpperCase, j, j), SubSeq(LowerCase, j, j)}

\* The mode a value of REDIS_MODE stands for.
C19_Mode(v) ==
  IF \E w \in {"disabled", "none", "off", "false"} : C19_EqualFold(v, w)
    THEN RedisModeDisabled
    ELSE RedisModeEnabled

\* C19: parseRedisMode returns the disabled mode exactly for the inputs that
\* equal "disabled", "none", "off" or "false" ignoring letter case and the
\* enabled mode for every other string; with REDIS_MODE unset or empty Load
\* yields the enabled mode.
C19_ParseRedisMode ==
  LET v == Getenv(cfg.environ, "REDIS_MODE") IN
    /\ cfg.parsed # "" => cfg.parsed = C19_Mode(v)
    /\ cfg.Redis.Mode # "" =>
         /\ cfg.Redis.Mode = C19_Mode(v)
         /\ v = "" => cfg.Redis.Mode = RedisModeEnabled

\* REDIS_MODE=DiSaBlEd parsed and loaded: the cache is disabled.
C19_Witness ==
  /\ cfg.environ = [k \in {"REDIS_MODE"} |-> "DiSaBlEd"]
  /\ cfg.parsed = RedisModeDisabled
  /\ cfg.Redis.Mode = RedisModeDisabled

\* The cache but for the count of the calls of Close.
C18_ClosedState(c) == [c EXCEPT !.CloseCalls = 0]

\* C18: Close is idempotent: a second Close, right after a first that
\* returned no error, returns no error either and leaves the cache in the
\* same closed state.
C18_CloseIdempotent ==
  [][(/\ port.out.op = "Close" /\ port.out.err = Nil
      /\ port'.out.op = "Close" /\ port'.n = port.n + 1) =>
       /\ port'.out.err = Nil
       /\ C18_ClosedState(cache') = C18_ClosedState(cache)]_vars

\* C20: a lookup of an absent key is a miss, not a failure: Get returns
\* found = false with a nil error and nil data when the key is not stored,
\* and returns an error (with found = false and nil data) only on a fault of
\* the backend call: an injected or current fault, or through the client of
\* RedisCache a context that is done.
C20_AbsentKeyIsMiss ==
  port.out.op = "Get" =>
    LET out == port.out
        absent == out.key \notin DOMAIN cache.data
        fault == \/ cache.GetError # Nil
                 \/ h.cache = "redis" /\ out.ctx # Nil
    IN /\ (absent /\ out.err = Nil) => ~out.found /\ out.data = NoBytes
       /\ (absent /\ ~fault) => out.err = Nil
       /\ out.err # Nil => ~out.found /\ out.data = NoBytes /\ fault
       /\ out.found =>
            ~absent /\ out.err = Nil /\ out.data = cache.data[out.key]

\* Get of a key that is not stored, from a cache that stores another key:
\* no data, not found, no error.
C20_Witness ==
  /\ port.out.op = "Get"
  /\ cache.data # <<>> /\ port.out.key \notin DOMAIN cache.data
  /\ port.out = [NoOut EXCEPT !.op = "Get", !.key = port.out.key,
                              !.ctx = port.out.ctx]

-----------------------------------------------------------------------------
(* The properties of the mocks.                                            *)

\* The step is a call of op on the mock.
MockCall(mock, op) ==
  /\ port.mock = mock
  /\ port'.n = port.n + 1
  /\ port'.out.op = op

\* What a map holds under k: whether there is an entry, and its bytes.
Entry(m, k) == IF k \in DOMAIN m THEN <<TRUE, m[k]>> ELSE <<FALSE, NoBytes>>

\* A successful Set(k, v) leaves v under k and every other key as it was.
C21_SetStep ==
  MockCall("MockCache", "Set") /\ cache.SetError = Nil =>
    /\ port'.out.err = Nil
    /\ Entry(cache'.data, port'.out.key) = <<TRUE, port'.out.data>>
    /\ \A j \in Names \ {port'.out.key} :
         Entry(cache'.data, j) = Entry(cache.data, j)

\* With no error injected, Get(k) returns the entry of k, found, and no
\* error, and changes no entry.
C21_GetStep ==
  MockCall("MockCache", "Get") /\ cache.GetError = Nil =>
    /\ <<port'.out.found, port'.out.data>>
         = Entry(cache.data, port'.out.key)
    /\ port'.out.err = Nil
    /\ cache'.data = cache.data

\* GetCalls grows by the key of each Get and SetCalls by the key and bytes
\* of each Set, whatever the call returns; only Reset empties them.
C21_CallsStep ==
  port.mock = "MockCache" =>
    IF MockCall("MockCache", "Get")
      THEN port'.calls = [port.calls EXCEPT
                            !.GetCalls = Append(@, port'.out.key)]
    ELSE IF MockCall("MockCache", "Set")
      THEN port'.calls = [port.calls EXCEPT
                            !.SetCalls = Append(@, [Key |-> port'.out.key,
                                                    Data |-> port'.out.data])]
    ELSE IF MockCall("MockCache", "Reset")
      THEN port'.calls = NoCacheCalls
    ELSE port'.calls = port.calls

\* Set(k, v) has been called with the bytes k holds.
C21_WasSet(k) ==
  /\ k \in DOMAIN cache.data
  /\ \E i \in 1..Len(port.calls.SetCalls) :
       port.calls.SetCalls[i] = [Key |-> k, Data |-> cache.data[k]]

\* C21 as stated: the entry a Set left under k stays, and Get(k) returns it,
\* until the next Set of k, ClearData or Reset.
C21_AsStated ==
  [][/\ C21_SetStep
     /\ C21_GetStep
     /\ C21_CallsStep
     /\ port.mock = "MockCache" =>
          \A k \in Names :
            C21_WasSet(k) /\ Entry(cache'.data, k) # Entry(cache.data, k) =>
              \/ MockCall("MockCache", "Set") /\ port'.out.key = k
              \/ MockCall("MockCache", "ClearData")
              \/ MockCall("MockCache", "Reset")]_vars

\* C21: MockCache round trip.  A successful Set(k, v) leaves v under k and
\* changes no other key; with no error injected Get(k) returns the entry of
\* k with found = true and a nil error; the entry of k changes only at a Set
\* or SetData of k, a ClearData or a Reset; GetCalls and SetCalls grow by
\* exactly one entry per Get and per Set.
C21_RoundTrip ==
  [][/\ C21_SetStep
     /\ C21_GetStep
     /\ C21_CallsStep
     /\ port.mock = "MockCache" =>
          \A k \in Names :
            Entry(cache'.data, k) # Entry(cache.data, k) =>
              \/ /\ MockCall("MockCache", "Set") \/ MockCall("MockCache", "SetData")
                 /\ port'.out.key = k
              \/ MockCall("MockCache", "ClearData")
              \/ MockCall("MockCache", "Reset")]_vars

\* Set(k, v), Set of the other key, then Get(k) has returned v.
C21_Witness ==
  /\ port.mock = "MockCache"
  /\ port.out.op = "Get" /\ port.out.found /\ port.out.err = Nil
  /\ Len(port.calls.SetCalls) = 2
  /\ port.calls.SetCalls[1] = [Key |-> port.out.key, Data |-> port.out.data]
  /\ port.calls.SetCalls[2].Key # port.out.key
  /\ port.calls.GetCalls = <<port.out.key>>
  /\ DOMAIN cache.data = Names

\* A successful PutObject(k, v) or SetObject(k, v) leaves v under k.
C22_PutStep ==
  /\ MockCall("MockStorage", "PutObject") /\ port'.out.err = Nil =>
       Entry(storage'.objects, port'.out.key) = <<TRUE, port'.out.data>>
  /\ MockCall("MockStorage", "SetObject") =>
       Entry(storage'.objects, port'.out.key) = <<TRUE, port'.out.data>>

\* GetObject(k) returns the bytes under k, or ErrObjectNotFound when there
\* are none; ObjectExists(k) tells whether there are any.
C22_ReadStep ==
  /\ MockCall("MockStorage", "GetObject") =>
       IF port'.out.key \in DOMAIN storage.objects
         THEN /\ port'.out.err = Nil
              /\ port'.out.data = storage.objects[port'.out.key]
         ELSE port'.out.err = ErrObjectNotFound
  /\ MockCall("MockStorage", "ObjectExists") =>
       /\ port'.out.err = Nil
       /\ port'.out.found = (port'.out.key \in DOMAIN storage.objects)

\* The objects change at no other call than PutObject, SetObject,
\* DeleteObject, ClearObjects and Reset.
C22_Frame ==
  port.mock = "MockStorage" /\ storage'.objects # storage.objects =>
    \/ MockCall("MockStorage", "PutObject")
    \/ MockCall("MockStorage", "SetObject")
    \/ MockCall("MockStorage", "DeleteObject")
    \/ MockCall("MockStorage", "ClearObjects")
    \/ MockCall("MockStorage", "Reset")

\* C22 as stated: the reads answer from the stored objects and DeleteObject
\* removes the object, whatever errors are set on the mock.
C22_AsStated ==
  [][/\ C22_PutStep
     /\ C22_ReadStep
     /\ C22_Frame
     /\ MockCall("MockStorage", "DeleteObject") =>
          port'.out.key \notin DOMAIN storage'.objects]_vars

\* C22: MockStorage round trip.  With no error injected, GetObject of a key
\* that holds no object (never put, or deleted) returns ErrObjectNotFound;
\* after a successful PutObject(k, v) or SetObject(k, v) the object of k is
\* v, GetObject(k) returns it and ObjectExists(k) is true; a successful
\* DeleteObject(k) removes the object of k.
C22_RoundTrip ==
  [][/\ C22_PutStep
     /\ storage.GetError = Nil /\ storage.ExistsError = Nil => C22_ReadStep
     /\ C22_Frame
     /\ MockCall("MockStorage", "DeleteObject") /\ port'.out.err = Nil =>
          port'.out.key \notin DOMAIN storage'.objects]_vars

\* PutObject(k, v), DeleteObject(k), then GetObject(k) has returned
\* ErrObjectNotFound.
C22_Witness ==
  /\ port.mock = "MockStorage"
  /\ port.out.op = "GetObject" /\ port.out.err = ErrObjectNotFound
  /\ Len(port.calls.PutCalls) = 1
  /\ port.calls.PutCalls[1].Key = port.out.key
  /\ port.calls.DeleteCalls = <<port.out.key>>
  /\ env = 0

\* While SetError is set, Set returns it, records the call and leaves the
\* entries as they were; while GetError is set, Get returns it, found or not.
C23_CacheStep ==
  /\ MockCall("MockCache", "Set") /\ cache.SetError # Nil =>
       /\ port'.out.err = cache.SetError
       /\ port'.calls.SetCalls
            = Append(port.calls.SetCalls,
                     [Key |-> port'.out.key, Data |-> port'.out.data])
       /\ cache'.data = cache.data
  /\ MockCall("MockCache", "Get") /\ cache.GetError # Nil =>
       /\ port'.out.err = cache.GetError
       /\ cache'.data = cache.data

\* The same for DeleteError and GetError of MockStorage.
C23_StorageStep ==
  /\ MockCall("MockStorage", "DeleteObject") /\ storage.DeleteError # Nil =>
       /\ port'.out.err = storage.DeleteError
       /\ port'.calls.DeleteCalls
            = Append(port.calls.DeleteCalls, port'.out.key)
       /\ storage'.objects = storage.objects
  /\ MockCall("MockStorage", "GetObject") /\ storage.GetError # Nil =>
       /\ port'.out.err = storage.GetError
       /\ storage'.objects = storage.objects

\* PutObject returns PutError, records the call and stores nothing.
C23_PutFails ==
  /\ port'.out.err = storage.PutError
  /\ port'.calls.PutCalls
       = Append(port.calls.PutCalls,
                [Key |-> port'.out.key, ContentType |-> ContentType,
                 Data |-> port'.out.data])
  /\ storage'.objects = storage.objects

\* C23 as stated: while PutError is set, every PutObject returns it and
\* records the call.
C23_AsStated ==
  [][/\ C23_CacheStep
     /\ C23_StorageStep
     /\ MockCall("MockStorage", "PutObject") /\ storage.PutError # Nil =>
          C23_PutFails]_vars

\* C23: an injected error leaves the stored data unchanged.  While SetError,
\* DeleteError or PutError is set, Set, DeleteObject and a PutObject whose
\* reader can be read to its end return exactly that error, record the call
\* and change no stored entry; while GetError is set, Get and GetObject
\* return it even for a key that is present.
C23_InjectedErrors ==
  [][/\ C23_CacheStep
     /\ C23_StorageStep
     /\ /\ MockCall("MockStorage", "PutObject")
        /\ storage.PutError # Nil
        /\ port'.out.reader.err = Nil
        => C23_PutFails]_vars

\* With PutError set, PutObject(k, v2) has failed and k still holds v.
C23_Witness ==
  /\ port.mock = "MockStorage"
  /\ port.out.op = "PutObject"
  /\ storage.PutError # Nil /\ port.out.err = storage.PutError
  /\ Len(port.calls.PutCalls) = 1
  /\ port.out.key \in DOMAIN storage.objects
  /\ storage.objects[port.out.key] # port.out.data

-----------------------------------------------------------------------------
(* More properties of the handlers.                                        *)

\* C24: a failed storage fetch is answered 404 exactly when the request's
\* deadline has not elapsed and the text of the storage error contains
\* "NoSuchKey" or "not found"; with the deadline not elapsed, an error whose
\* text contains neither is answered 500, and "bucket not found", which is
\* no missing key, is answered 404.
C24_NotFoundBySubstring ==
  \A rq \in Requests :
    (rq.kind = "GetFile" /\ rq.pc = "done" /\ rq.err # Nil) =>
      LET inTime == rq.ctxErr # DeadlineExceeded
          hasText == \/ Contains(rq.err, "NoSuchKey")
                     \/ Contains(rq.err, "not found")
      IN  /\ Made(rq, "storage.GetObject")
          /\ rq.resp.status = StatusNotFound <=> (inTime /\ hasText)
          /\ (inTime /\ ~hasText) =>
               rq.resp.status = StatusInternalServerError
          /\ (inTime /\ rq.err = ErrBucketNotFound) =>
               rq.resp.status = StatusNotFound

\* "bucket not found" answered 404, and "storage error" answered 500.
C24_Witness ==
  \E rq \in Requests :
    /\ rq.kind = "GetFile" /\ rq.pc = "done"
    /\ rq.err = ErrBucketNotFound
    /\ rq.name \in DOMAIN storage.objects
    /\ rq.resp.status = StatusNotFound

\* Whatever the other requests do: a lookup of a key the cache does not hold
\* is a miss, and the fetch after a miss calls storage.GetObject once more
\* and, when it succeeds behind a cache, schedules a write-back.
C25_Step ==
  \A rq \in Requests :
    /\ (rq.pc = "cache" /\ rq.name \notin DOMAIN cache.data) =>
         \A rq2 \in BagToSet(req') :
           Advances(rq, rq2) => rq2.pc = "storage" /\ ~rq2.found
    /\ rq.pc = "storage" =>
         \A rq2 \in BagToSet(req') :
           Advances(rq, rq2) =>
             /\ rq2.calls = Append(rq.calls, "storage.GetObject")
             /\ (rq2.err = Nil /\ h.cache # "nil") => rq2.wb = "scheduled"

\* A request that missed is never held back at its fetch, and once its
\* fetch has succeeded it is answered 200 with the fetched bytes.
C25_State ==
  \A rq \in Requests :
    /\ rq.pc = "storage" => ENABLED StorageFetch(rq)
    /\ (rq.kind = "GetFile" /\ rq.pc = "done" /\ ~rq.found /\ rq.err = Nil
          /\ Made(rq, "storage.GetObject")) =>
         /\ rq.resp.status = StatusOK
         /\ rq.resp.body = rq.data
         /\ h.cache # "nil" => rq.wb # "none"

\* C25: there is no request coalescing.  Requests for the same key that
\* look the key up before a write-back has stored it all miss, each of them
\* calls storage.GetObject (a second fetch is never held back by the first),
\* each schedules its own write-back, and each is answered 200 with the
\* bytes the storage returned.
C25_NoCoalescing == []C25_State /\ [][C25_Step]_vars

\* Two requests for the same key that both missed, both fetched, both wrote
\* back and were both answered 200 with the storage's bytes.
C25_Witness ==
  \E rq \in Requests :
    /\ CopiesIn(rq, req) = 2
    /\ rq.pc = "done" /\ rq.wb = "done" /\ ~rq.found
    /\ rq.calls = <<"cache.Get", "storage.GetObject", "cache.Set">>
    /\ rq.resp.status = StatusOK
    /\ rq.name \in DOMAIN storage.objects
    /\ rq.resp.body = storage.objects[rq.name]

\* A request has a response exactly when its handler has returned.
C26_State ==
  \A rq \in Requests :
    /\ rq.resp # NoResponse <=> rq.pc = "done"
    /\ rq.pc = "done" => rq.resp.status # 0

\* Once the response is written nothing of the request changes any more but
\* its write-back, which reads no port and calls cache.Set alone.
C26_Step ==
  \A rq \in Requests :
    rq.pc = "done" =>
      \A rq2 \in BagToSet(req') :
        Moves(rq, rq2) =>
          /\ rq2.pc = "done"
          /\ rq2.resp = rq.resp
          /\ rq2.health = rq.health
          /\ rq.wb # "none"
          /\ rq2.calls \in {rq.calls, Append(rq.calls, "cache.Set")}

\* C26: every GetFile and Health request is answered exactly once on every
\* control path: the handler returns with the step that writes the response,
\* the response is never written again, and after it the handler reads no
\* port for that request; only the detached write-back may still run.
C26_ExactlyOneResponse == []C26_State /\ [][C26_Step]_vars

\* A request answered on the miss path whose write-back ran afterwards, next
\* to a Health request that was answered.
C26_Witness ==
  /\ \E rq \in Requests :
       /\ rq.kind = "GetFile" /\ rq.pc = "done" /\ rq.wb = "done"
       /\ rq.resp.status = StatusOK
       /\ Count(rq, "storage.GetObject") = 1
  /\ \E rq \in Requests :
       rq.kind = "Health" /\ rq.pc = "done" /\ rq.resp # NoResponse

\* A successful fetch hands the handler the bytes the storage holds under
\* the request's own key.
C27_FetchStep ==
  \A rq \in Requests :
    rq.pc = "storage" =>
      \A rq2 \in BagToSet(req') :
        (rq2.err = Nil /\ Advances(rq, rq2)) =>
          /\ rq.name \in DOMAIN storage.objects
          /\ rq2.data = storage.objects[rq.name]
          /\ rq2.name = rq.name

\* Every entry of the cache is what a successful fetch of the same key
\* returned to a request whose write-back has called Set.
C27_State ==
  \A k \in DOMAIN cache.data :
    \E rq \in Requests :
      /\ rq.kind = "GetFile" /\ rq.name = k
      /\ ~rq.found /\ rq.err = Nil
      /\ Made(rq, "storage.GetObject")
      /\ rq.data = cache.data[k]
      /\ rq.wb = "done"

\* C27: cache provenance.  With the handler's write-backs as the only
\* writers, every cache entry (k, v) holds the bytes storage.GetObject(k)
\* returned successfully to an earlier GetFile request for k: never bytes
\* fetched under another key, never bytes the storage did not hold for k.
C27_CacheProvenance == []C27_State /\ [][C27_FetchStep]_vars

\* The cache holds an entry for a key whose object has since been replaced
\* in the storage: its bytes are those of the earlier fetch.
C27_Witness ==
  /\ "a.txt" \in DOMAIN cache.data
  /\ "a.txt" \in DOMAIN storage.objects
  /\ storage.objects["a.txt"] # cache.data["a.txt"]
  /\ \E rq \in Requests : rq.name = "a.txt" /\ rq.data = cache.data["a.txt"]

\* No fetch on record has been overtaken by a change of the stored objects:
\* what each request fetched is what the storage holds now, and a key
\* reported missing is missing now.  It holds as long as the objects are
\* not modified out-of-band.
C28_StorageAsFetched ==
  \A rq \in Requests :
    (rq.kind = "GetFile" /\ Made(rq, "storage.GetObject")) =>
      IF rq.err = Nil
        THEN Entry(storage.objects, rq.name) = <<TRUE, rq.data>>
        ELSE rq.err = ErrObjectNotFound => rq.name \notin DOMAIN storage.objects

\* What a handler without a cache answers a request for name now.
C28_WithoutCache(name, ctxErr) ==
  LET g == MockStorageGetObject(storage, name) IN
  IF g.err = Nil
    THEN [status |-> StatusOK, success |-> TRUE, message |-> "",
          body |-> g.data]
  ELSE IF ctxErr = DeadlineExceeded
    THEN [status |-> StatusGatewayTimeout, success |-> FALSE,
          message |-> "Request timeout", body |-> NoBytes]
  ELSE IF Contains(g.err, "NoSuchKey") \/ Contains(g.err, "not found")
    THEN [status |-> StatusNotFound, success |-> FALSE,
          message |-> "File not found", body |-> NoBytes]
  ELSE [status |-> StatusInternalServerError, success |-> FALSE,
        message |-> "Failed to retrieve file", body |-> NoBytes]

\* The cache holds nothing but what the storage holds.
C28_Coherent ==
  C28_StorageAsFetched =>
    \A k \in DOMAIN cache.data :
      Entry(storage.objects, k) = <<TRUE, cache.data[k]>>

\* On the miss path the handler answers what the storage returns to it, as
\* a handler without a cache does.
C28_MissStep ==
  \A rq \in Requests :
    /\ rq.pc = "storage" =>
         \A rq2 \in BagToSet(req') :
           Advances(rq, rq2) =>
             IF rq2.err = Nil
               THEN rq2.pc = "respond" /\ rq2.resp = NoResponse
                    /\ <<TRUE, rq2.data>> = Entry(storage.objects, rq.name)
               ELSE rq2.resp = C28_WithoutCache(rq.name, rq.ctxErr)
    /\ rq.pc = "respond" =>
         \A rq2 \in BagToSet(req') :
           Advances(rq, rq2) =>
             rq2.resp = [status |-> StatusOK, success |-> TRUE,
                         message |-> "", body |-> rq.data]

\* The answer to a hit is the answer of a handler without a cache, given
\* that ok holds before the lookup.
C28_HitStep(ok) ==
  \A rq \in Requests :
    (rq.pc = "cache" /\ ok) =>
      \A rq2 \in BagToSet(req') :
        (rq2.found /\ Advances(rq, rq2)) =>
          rq2.resp = C28_WithoutCache(rq.name, rq.ctxErr)

\* C28 as stated: with the stored objects not modified out-of-band and the
\* cache empty at the start, every answer is the answer of a handler without
\* a cache.
C28_AsStated ==
  /\ []C28_Coherent
  /\ [][C28_MissStep /\ C28_HitStep(C28_StorageAsFetched)]_vars

\* C28: cache transparency.  While the stored objects are not modified
\* out-of-band, storage.GetObject is not failing with an injected fault and
\* the cache starts empty, the status and body GetFile returns with the
\* cache enabled are those a handler without a cache returns for the key,
\* under any interleaving of requests and write-backs.
C28_CacheTransparency ==
  /\ []C28_Coherent
  /\ [][/\ C28_MissStep
        /\ C28_HitStep(C28_StorageAsFetched /\ storage.GetError = Nil)]_vars

\* A hit answered exactly as the miss before it was.
C28_Witness ==
  \E rq \in Requests :
    /\ rq.found /\ rq.pc = "done"
    /\ Entry(storage.objects, rq.name) = <<TRUE, rq.resp.body>>
    /\ \E rq1 \in Requests :
         /\ rq1.name = rq.name /\ ~rq1.found /\ rq1.pc = "done"
         /\ rq1.resp = rq.resp

\* The step after cache.Get: found is answered 200 with the returned bytes
\* and not found goes on to storage, whatever error came with it.
C29_Step ==
  \A rq \in Requests :
    rq.pc = "cache" =>
      \A rq2 \in BagToSet(req') :
        Advances(rq, rq2) =>
          IF rq2.found
            THEN /\ rq2.pc = "done"
                 /\ rq2.resp = [status |-> StatusOK, success |-> TRUE,
                                message |-> "", body |-> rq2.cdata]
            ELSE /\ rq2.pc = "storage"
                 /\ rq2.resp = NoResponse

\* A request told found never calls the storage; a request told not found
\* that is past its fetch has called it.
C29_State ==
  \A rq \in Requests :
    Made(rq, "cache.Get") =>
      IF rq.found
        THEN rq.pc = "done" /\ rq.calls = <<"cache.Get">>
        ELSE rq.pc # "storage" => Made(rq, "storage.GetObject")

\* C29: GetFile's hit-or-miss decision depends only on the found flag that
\* cache.Get returns.  The error is logged and changes nothing: not found
\* always goes on to storage, and found is always answered 200 from the
\* cache, also when an error comes with it.
C29_FoundAloneDecides == []C29_State /\ [][C29_Step]_vars

\* Found together with an error answered 200 with the returned bytes, next
\* to not found together with an error answered from the storage.
C29_Witness ==
  /\ \E rq \in Requests :
       /\ rq.found /\ rq.cerr # Nil /\ rq.pc = "done"
       /\ rq.resp.status = StatusOK /\ rq.resp.body = rq.cdata
       /\ rq.cdata \in Bytes
  /\ \E rq \in Requests :
       /\ ~rq.found /\ rq.cerr # Nil /\ rq.pc = "done"
       /\ Made(rq, "storage.GetObject")
       /\ rq.resp.status = StatusOK

\* A request without its response, or a write-back that has not ended.
C30_Outstanding ==
  \E rq \in Requests : rq.pc # "done" \/ rq.wb \notin {"none", "done"}

\* C30: provided each port call returns by its context's deadline, every
\* GetFile request is answered in the end and every write-back goroutine
\* that was scheduled ends (one Set under its own 30s timeout, then it
\* exits): whenever something is outstanding, a state follows in which
\* every request has its response and no write-back is outstanding.
C30_Termination == C30_Outstanding ~> ~C30_Outstanding

\* Nothing is outstanding after two requests, one of whose write-backs ran
\* into its own deadline and ended with the error.
C30_Witness ==
  /\ ~C30_Outstanding
  /\ BagCardinality(req) = 2
  /\ \E rq \in Requests :
       /\ rq.wb = "done" /\ rq.bgCtxErr = DeadlineExceeded
       /\ rq.wbErr # Nil

====
